---- MODULE Spec2Model ----
(***************************************************************************)
(* Ralph: the task tree, its traversal/mutation algebra and the scheduler. *)
(*                                                                         *)
(* A TaskNode is a record [name, status, children]; a Tree is a record     *)
(* [name, children].  The other TaskNode fields (spec, context,            *)
(* read_first, files, acceptance) are carried along untouched by every     *)
(* operation modelled here (model_copy), so they are left out.             *)
(*                                                                         *)
(* Spec is the tree under the operations of the API and the task service.  *)
(* SpecHeal is one run of the self-healing loop on a task's files and      *)
(* acceptance commands.  SpecWorkers is the tree and the stored worker     *)
(* pool under the worker commands of the CLI and the API, SpecRolling the  *)
(* same under the rolling commands of ralph_tree.py, SpecRace several      *)
(* done-one commands running at a time, and SpecExecute the automatic      *)
(* execution of ralph_tree.py.  SpecEstimate is the token estimate of a    *)
(* task whose file list grows, SpecStored the task service on any stored   *)
(* tree, SpecDotted the CLI's worker commands on a stored tree with a dot  *)
(* in a name, and SpecSlices ralph_tree.py on a tree with slices.          *)
(***************************************************************************)
EXTENDS Integers, Sequences, FiniteSets, TLC

\* tree: the stored task tree.  heal: one run of the self-healing loop (or
\* of a validation command), with the calls it made to its collaborators;
\* in SpecExecute, the automatic execution that runs.
\* work: the stored worker pool, and the worker commands that are running.
VARIABLES tree, heal, work

vars == <<tree, heal, work>>

(***************************************************************************)
(* Bounds of the model.                                                    *)
(***************************************************************************)
\* most nodes a tree may hold (below the root)
MaxNodes == 3
\* deepest level of a node below the root
MaxDepth == 2
\* largest batch size asked of find_n_pending
MaxN == 3
\* largest max_attempts passed to the healing loop
MaxMaxAttempts == 3
\* longest acceptance list of a task
MaxCommands == 2
\* most files a task declares
MaxFiles == 2
\* most workers in the stored pool
MaxWorkers == 2
\* largest worker id
MaxWorkerId == 2
\* most done-one commands running at a time
MaxProcs == 2
\* most files a task under estimation declares
MaxTaskFiles == 5
\* most files a task under estimation lists to read first
MaxReadFirst == 1

RootName == "Root"
\* names offered for a node added under the root, and for one added deeper
TopNames == {"A", "B"}
NestedNames == {"A1", "B"}
Names == TopNames \cup NestedNames

PENDING == "pending"
IN_PROGRESS == "in-progress"
DONE == "done"
BLOCKED == "blocked"
TaskStatus == {PENDING, IN_PROGRESS, DONE, BLOCKED}

\* Python's None
None == [none |-> TRUE]

\* TaskNode(name=...) : status defaults to PENDING, children to []
TaskNode(name, status) == [name |-> name, status |-> status, children |-> <<>>]

\* Tree(name=...) : children defaults to []
Tree(name) == [name |-> name, children |-> <<>>]

TaskWithPath(task, path) == [task |-> task, path |-> path]

is_leaf(node) == Len(node.children) = 0

(***************************************************************************)
(* Predicates, passed to filter_nodes and find_first as values.            *)
(***************************************************************************)
IsLeafPred == [kind |-> "is_leaf"]
IsPendingLeafPred == [kind |-> "is_pending_leaf"]
HasStatusPred(status) == [kind |-> "has_status", status |-> status]
PathMatchesPred(target_path) == [kind |-> "path_matches", target_path |-> target_path]

is_pending_leaf_nogroupcheck(node) == node.status = PENDING

is_pending_leaf(node) == is_leaf(node) /\ node.status = PENDING

Pred(predicate, node, path) ==
    CASE predicate.kind = "is_leaf" -> is_leaf(node)
      [] predicate.kind = "is_pending_leaf" -> is_pending_leaf(node)
      [] predicate.kind = "has_status" -> node.status = predicate.status
      [] predicate.kind = "path_matches" -> path = predicate.target_path
      [] predicate.kind = "any" -> TRUE

(***************************************************************************)
(* fold_tree with f = filter_nodes' collect: depth-first, a node before    *)
(* its children, children in order.                                        *)
(***************************************************************************)
RECURSIVE fold_node(_, _, _, _)
RECURSIVE fold_children(_, _, _, _, _)

fold_node(acc, node, path, predicate) ==
    LET current_path == Append(path, node.name)
        acc1 == IF Pred(predicate, node, current_path)
                THEN Append(acc, TaskWithPath(node, current_path))
                ELSE acc
    IN fold_children(acc1, node.children, 1, current_path, predicate)

fold_children(acc, children, i, path, predicate) ==
    IF i > Len(children) THEN acc
    ELSE fold_children(fold_node(acc, children[i], path, predicate),
                       children, i + 1, path, predicate)

filter_nodes(t, predicate) ==
    fold_children(<<>>, t.children, 1, <<t.name>>, predicate)

(***************************************************************************)
(* find_first: depth-first, first node for which the predicate holds.      *)
(***************************************************************************)
RECURSIVE search(_, _, _)
RECURSIVE search_children(_, _, _, _)

search(node, path, predicate) ==
    LET current_path == Append(path, node.name)
    IN IF Pred(predicate, node, current_path)
       THEN TaskWithPath(node, current_path)
       ELSE search_children(node.children, 1, current_path, predicate)

search_children(children, i, path, predicate) ==
    IF i > Len(children) THEN None
    ELSE LET result == search(children[i], path, predicate)
         IN IF result # None THEN result
            ELSE search_children(children, i + 1, path, predicate)

find_first(t, predicate) == search_children(t.children, 1, <<t.name>>, predicate)

find_next_pending(t) == find_first(t, IsPendingLeafPred)

find_by_path(t, path) ==
    LET result == find_first(t, PathMatchesPred(path))
    IN IF result # None THEN result.task ELSE None

get_all_leaves(t) == filter_nodes(t, IsLeafPred)

get_all_pending(t) == filter_nodes(t, IsPendingLeafPred)

(***************************************************************************)
(* find_n_pending: collect_up_to_n appends to the shared list `tasks` and  *)
(* returns True when the search should stop.  Here it returns both.        *)
(***************************************************************************)
stop_collecting_off_by_one(tasks, n) == Len(tasks) + 1 >= n

\* traversal.py: return len(tasks) >= n   (evaluated after the append)
stop_collecting(tasks, n) == Len(tasks) >= n

RECURSIVE collect_up_to_n(_, _, _, _)
RECURSIVE collect_children(_, _, _, _, _)

collect_up_to_n(tasks, node, path, n) ==
    LET current_path == Append(path, node.name)
    IN IF is_leaf(node)
       THEN IF node.status = PENDING
            THEN LET tasks1 == Append(tasks, TaskWithPath(node, current_path))
                 IN [tasks |-> tasks1, stop |-> stop_collecting(tasks1, n)]
            ELSE [tasks |-> tasks, stop |-> FALSE]
       ELSE collect_children(tasks, node.children, 1, current_path, n)

collect_children(tasks, children, i, path, n) ==
    IF i > Len(children) THEN [tasks |-> tasks, stop |-> FALSE]
    ELSE LET r == collect_up_to_n(tasks, children[i], path, n)
         IN IF r.stop THEN r
            ELSE collect_children(r.tasks, children, i + 1, path, n)

find_n_pending(t, n) == collect_children(<<>>, t.children, 1, <<t.name>>, n).tasks

(***************************************************************************)
(* Node updates, passed to update_at_path as values.                       *)
(***************************************************************************)
Identity == [kind |-> "identity"]
SetStatus(status) == [kind |-> "set_status", status |-> status]
Rename(name) == [kind |-> "rename", name |-> name]
DropChildren == [kind |-> "drop_children"]

Updates == {Identity, DropChildren}
             \cup {SetStatus(s) : s \in TaskStatus}
             \cup {Rename(n) : n \in Names}

Apply(update, node) ==
    CASE update.kind = "identity" -> node
      [] update.kind = "set_status" -> [node EXCEPT !.status = update.status]
      [] update.kind = "rename" -> [node EXCEPT !.name = update.name]
      [] update.kind = "drop_children" -> [node EXCEPT !.children = <<>>]

RECURSIVE update_node_rebuild(_, _, _)
update_node_rebuild(node, remaining, update) ==
    IF remaining = <<>> \/ Head(remaining) # node.name THEN node
    ELSE IF Len(remaining) = 1 THEN Apply(update, node)
    ELSE [name |-> node.name, status |-> PENDING,
          children |-> [i \in 1..Len(node.children) |->
              update_node_rebuild(node.children[i], Tail(remaining), update)]]

RECURSIVE update_node(_, _, _)
update_node(node, remaining, update) ==
    IF remaining = <<>> \/ Head(remaining) # node.name THEN node
    ELSE IF Len(remaining) = 1 THEN Apply(update, node)
    ELSE [node EXCEPT !.children = [i \in 1..Len(node.children) |->
              update_node(node.children[i], Tail(remaining), update)]]

\* "Skip root name if present"
skip_root(t, path) ==
    IF path # <<>> /\ Head(path) = t.name THEN Tail(path) ELSE path

update_at_path(t, path, update) ==
    LET search_path == skip_root(t, path)
    IN [t EXCEPT !.children = [i \in 1..Len(t.children) |->
            update_node(t.children[i], search_path, update)]]

(***************************************************************************)
(* Result values (domain/shared/result.py).                                *)
(***************************************************************************)
Ok(value) == [ok |-> TRUE, value |-> value]
Err(error) == [ok |-> FALSE, error |-> error]

\* The error strings of task_service, with the values they interpolate.
ErrNotFound(path) == [kind |-> "Task not found at path", path |-> path]
ErrNotPending(task) ==
    [kind |-> "is not pending", name |-> task.name, status |-> task.status]
ErrCannotComplete(task) ==
    [kind |-> "cannot be completed", name |-> task.name, status |-> task.status]
ErrGrouping(task) == [kind |-> "is a grouping node", name |-> task.name]

TaskEvent(type, path, task) ==
    [type |-> type, task_path |-> path, task_name |-> task.name]

(***************************************************************************)
(* application/task_service.py                                             *)
(***************************************************************************)
get_next_task(t) ==
    LET task_with_path == find_next_pending(t)
    IN IF task_with_path = None THEN Err([kind |-> "No pending tasks found"])
       ELSE Ok(task_with_path)

start_task_no_leaf_check(t, path) ==
    LET task == find_by_path(t, path)
    IN IF task = None THEN Err(ErrNotFound(path))
       ELSE IF task.status # PENDING THEN Err(ErrNotPending(task))
       ELSE Ok([tree |-> update_at_path(t, path, SetStatus(IN_PROGRESS)),
                event |-> TaskEvent("TaskStarted", path, task)])

start_task(t, path) ==
    LET task == find_by_path(t, path)
    IN IF task = None THEN Err(ErrNotFound(path))
       ELSE IF task.status # PENDING THEN Err(ErrNotPending(task))
       ELSE IF ~is_leaf(task) THEN Err(ErrGrouping(task))
       ELSE Ok([tree |-> update_at_path(t, path, SetStatus(IN_PROGRESS)),
                event |-> TaskEvent("TaskStarted", path, task)])

complete_task_returns_input(t, path) ==
    LET task == find_by_path(t, path)
    IN IF task = None THEN Err(ErrNotFound(path))
       ELSE IF task.status \notin {IN_PROGRESS, PENDING}
            THEN Err(ErrCannotComplete(task))
       ELSE IF ~is_leaf(task) THEN Err(ErrGrouping(task))
       ELSE Ok([tree |-> t,
                event |-> TaskEvent("TaskCompleted", path, task)])

complete_task(t, path) ==
    LET task == find_by_path(t, path)
    IN IF task = None THEN Err(ErrNotFound(path))
       ELSE IF task.status \notin {IN_PROGRESS, PENDING}
            THEN Err(ErrCannotComplete(task))
       ELSE IF ~is_leaf(task) THEN Err(ErrGrouping(task))
       ELSE Ok([tree |-> update_at_path(t, path, SetStatus(DONE)),
                event |-> TaskEvent("TaskCompleted", path, task)])

(***************************************************************************)
(* core.py: the traversal and mutation functions behind the API and TUI.   *)
(***************************************************************************)
RECURSIVE core_dfs_n(_, _, _, _)
RECURSIVE core_dfs_n_children(_, _, _, _, _)

core_dfs_n(tasks, node, path, n) ==
    LET current_path == Append(path, node.name)
    IN IF is_leaf(node)
       THEN IF node.status = PENDING
            THEN LET tasks1 == Append(tasks, TaskWithPath(node, current_path))
                 IN [tasks |-> tasks1, stop |-> Len(tasks1) >= n]
            ELSE [tasks |-> tasks, stop |-> FALSE]
       ELSE core_dfs_n_children(tasks, node.children, 1, current_path, n)

core_dfs_n_children(tasks, children, i, path, n) ==
    IF i > Len(children) THEN [tasks |-> tasks, stop |-> FALSE]
    ELSE LET r == core_dfs_n(tasks, children[i], path, n)
         IN IF r.stop THEN r
            ELSE core_dfs_n_children(r.tasks, children, i + 1, path, n)

\* the search begun with an empty path instead of [tree.name]
core_find_n_tasks_below_root(t, n) ==
    core_dfs_n_children(<<>>, t.children, 1, <<>>, n).tasks

core_find_n_tasks(t, n) ==
    core_dfs_n_children(<<>>, t.children, 1, <<t.name>>, n).tasks

\* core.find_next_task: dfs over the children of the root, the first result
RECURSIVE core_dfs(_, _)
RECURSIVE core_dfs_children(_, _, _)
core_dfs(node, path) ==
    LET current_path == Append(path, node.name)
    IN IF is_leaf(node)
       THEN IF node.status = PENDING
            THEN TaskWithPath(node, current_path)
            ELSE None
       ELSE core_dfs_children(node.children, 1, current_path)

core_dfs_children(children, i, path) ==
    IF i > Len(children) THEN None
    ELSE LET result == core_dfs(children[i], path)
         IN IF result # None THEN result
            ELSE core_dfs_children(children, i + 1, path)

core_find_next_task(t) == core_dfs_children(t.children, 1, <<t.name>>)

\* an exception leaving the function
Fault(kind) == [fault |-> kind]

RECURSIVE core_search(_, _)
RECURSIVE core_search_children(_, _, _)

\* search(node, remaining), called with node.name already compared by the caller
core_search(node, remaining) ==
    IF remaining = <<>> THEN node
    ELSE IF node.name # remaining[1] THEN None
    ELSE IF Len(remaining) = 1 THEN node
    ELSE core_search_children(node.children, 1, remaining)

\* for child in node.children: if child.name == remaining[1]: return search(...)
core_search_children(children, i, remaining) ==
    IF i > Len(children) THEN None
    ELSE IF children[i].name = remaining[2]
         THEN core_search(children[i], Tail(remaining))
         ELSE core_search_children(children, i + 1, remaining)

RECURSIVE core_find_top(_, _, _)
\* for child in tree.children: if child.name == search_path[0]: ...
core_find_top(children, i, search_path) ==
    IF i > Len(children) THEN None
    ELSE IF search_path = <<>> THEN Fault("IndexError")
    ELSE IF children[i].name = search_path[1]
         THEN LET result == core_search(children[i], search_path)
              IN IF result # None THEN result
                 ELSE core_find_top(children, i + 1, search_path)
         ELSE core_find_top(children, i + 1, search_path)

core_find_task_by_path(t, path) ==
    IF path = <<>> THEN None
    ELSE core_find_top(t.children, 1,
                       IF path[1] = t.name THEN Tail(path) ELSE path)

core_update_task_status(t, path, status) ==
    LET search_path == skip_root(t, path)
    IN [t EXCEPT !.children = [i \in 1..Len(t.children) |->
            update_node(t.children[i], search_path, SetStatus(status))]]

core_mark_task_done(t, path) == core_update_task_status(t, path, DONE)

RECURSIVE add_to_node(_, _, _)
add_to_node(node, remaining, task) ==
    IF remaining = <<>> \/ Head(remaining) # node.name THEN node
    ELSE IF Len(remaining) = 1
         THEN [node EXCEPT !.children = Append(node.children, task)]
    ELSE [node EXCEPT !.children = [i \in 1..Len(node.children) |->
              add_to_node(node.children[i], Tail(remaining), task)]]

core_add_task(t, parent_path, task) ==
    LET search_path == skip_root(t, parent_path)
    IN IF search_path = <<>>
       THEN [t EXCEPT !.children = Append(t.children, task)]
       ELSE [t EXCEPT !.children = [i \in 1..Len(t.children) |->
                add_to_node(t.children[i], search_path, task)]]

(***************************************************************************)
(* core.py prune_task.  A pydantic model is always truthy, so `if result`  *)
(* keeps every child that prune_from_node returns.                         *)
(***************************************************************************)
without_name(children, name) ==
    SelectSeq(children, LAMBDA c : c.name # name)

RECURSIVE prune_from_node(_, _)
prune_from_node(node, remaining) ==
    IF remaining = <<>> THEN node
    ELSE IF Len(remaining) = 1
    THEN [node EXCEPT !.children = without_name(node.children, remaining[1])]
    ELSE IF remaining[1] # node.name THEN node
    ELSE [node EXCEPT !.children = [i \in 1..Len(node.children) |->
            prune_from_node(node.children[i], Tail(remaining))]]

core_prune_task(t, path) ==
    LET search_path == skip_root(t, path)
        kept == IF Len(search_path) = 1
                THEN without_name(t.children, search_path[1])
                ELSE t.children
    IN [t EXCEPT !.children = [i \in 1..Len(kept) |->
            prune_from_node(kept[i], search_path)]]

(***************************************************************************)
(* api.py: POST /projects/{id}/tasks/{task_path}/status.  The new tree is  *)
(* saved before the progress line is looked up; `saved` is what storage    *)
(* holds afterwards, `code` the HTTP status of the response.               *)
(***************************************************************************)
api_update_task_status(t, path, status) ==
    LET new_tree == core_update_task_status(t, path, status)
        task == IF status = DONE THEN core_find_task_by_path(t, path) ELSE None
    IN IF task = Fault("IndexError")
       THEN [saved |-> new_tree, code |-> 500]
       ELSE [saved |-> new_tree, code |-> 200, tree |-> new_tree]

\* api.py: POST /projects/{id}/tasks/add; an empty parent_path string is []
api_add_task(t, parent_path, task) ==
    LET new_tree == core_add_task(t, parent_path, task)
    IN [saved |-> new_tree, code |-> 200, tree |-> new_tree]

\* api.py: DELETE /projects/{id}/tasks/{task_path}
api_delete_task(t, path) ==
    LET new_tree == core_prune_task(t, path)
    IN [saved |-> new_tree, code |-> 200, tree |-> new_tree]

(***************************************************************************)
(* ralph_tree.py, the dict-based tree of the command-line script.  A dict  *)
(* is an object that the caller and the callee share: a node is identified *)
(* by its position in the tree object (child indices from the root), and   *)
(* an assignment to a key of a node changes the caller's tree and every    *)
(* reference to that node handed out before.                               *)
(***************************************************************************)
legacy_get_status(node) ==
    IF "status" \in DOMAIN node THEN node.status ELSE PENDING

\* index of the first child with that name, 0 when there is none
first_child_named(children, name) ==
    IF \E i \in 1..Len(children) : children[i].name = name
    THEN CHOOSE i \in 1..Len(children) :
            /\ children[i].name = name
            /\ \A j \in 1..(i - 1) : children[j].name # name
    ELSE 0

RECURSIVE node_at(_, _)
node_at(node, at) ==
    IF at = <<>> THEN node ELSE node_at(node.children[at[1]], Tail(at))

\* node["status"] = "done" on the node at position at
RECURSIVE assign_done(_, _)
assign_done(node, at) ==
    IF at = <<>>
    THEN [name |-> node.name, status |-> DONE, children |-> node.children]
    ELSE [node EXCEPT !.children[at[1]] = assign_done(@, Tail(at))]

\* find_next_task_in_node: the pending leaf found is a reference into the tree
RECURSIVE legacy_find_next_task_in_node(_, _, _)
RECURSIVE legacy_find_next_in_children(_, _, _, _)
legacy_find_next_task_in_node(node, path, at) ==
    LET current_path == Append(path, node.name)
    IN IF is_leaf(node)
       THEN IF legacy_get_status(node) = PENDING
            THEN [task |-> node, path |-> current_path, at |-> at]
            ELSE None
       ELSE legacy_find_next_in_children(node.children, 1, current_path, at)
legacy_find_next_in_children(children, i, current_path, at) ==
    IF i > Len(children) THEN None
    ELSE LET result == legacy_find_next_task_in_node(children[i], current_path,
                                                     Append(at, i))
         IN IF result # None THEN result
            ELSE legacy_find_next_in_children(children, i + 1, current_path, at)

\* find_next_task on a tree without slices
legacy_find_next_task(t) == legacy_find_next_task_in_node(t, <<>>, <<>>)

\* the loop of mark_done over path[:-1], the first segment skipped: the
\* position of `node` when the loop ends (a segment that matches no child
\* leaves node where it is)
RECURSIVE mark_done_descend(_, _)
mark_done_descend(node, names) ==
    IF names = <<>> THEN <<>>
    ELSE LET k == first_child_named(node.children, Head(names))
         IN IF k = 0 THEN mark_done_descend(node, Tail(names))
            ELSE <<k>> \o mark_done_descend(node.children[k], Tail(names))

\* mark_done(tree, path), path non-empty: what it returns, and the value of
\* the caller's tree object after the call
mark_done(t, path) ==
    LET at == mark_done_descend(t, SubSeq(path, 2, Len(path) - 1))
        node == node_at(t, at)
        last == path[Len(path)]
        k == first_child_named(node.children, last)
    IN IF k # 0
       THEN [returned |-> TRUE, tree |-> assign_done(t, Append(at, k))]
       ELSE IF node.name = last
       THEN [returned |-> TRUE, tree |-> assign_done(t, at)]
       ELSE [returned |-> FALSE, tree |-> t]

(***************************************************************************)
(* self_heal.py.  An Optional[str] is a sequence of at most one string:    *)
(* <<>> is Python's None, <<s>> the string s.  A command, the provider and *)
(* the file system are collaborators: what they do on one call is an       *)
(* outcome chosen by the environment.                                      *)
(***************************************************************************)
NoneStr == <<>>
Str(s) == <<s>>

\* a command exits 0, exits non-zero, exceeds the timeout, or cannot be run
CommandOutcomes == {"pass", "fail", "timeout", "error"}

ValidationResult(success, command, return_code) ==
    [success |-> success, command |-> command, return_code |-> return_code]

HealingResult(success, attempts, file_fixed, validations, error) ==
    [success |-> success, attempts |-> attempts, file_fixed |-> file_fixed,
     validations |-> validations, error |-> error]

run_command(command, outcome) ==
    CASE outcome = "pass" -> ValidationResult(TRUE, command, 0)
      [] outcome = "fail" -> ValidationResult(FALSE, command, 1)
      [] outcome = "timeout" -> ValidationResult(FALSE, command, -1)
      [] outcome = "error" -> ValidationResult(FALSE, command, -1)

\* the loop of run_validation from command i on, results collected so far
RECURSIVE run_validation_from(_, _, _, _)
run_validation_from(commands, outcomes, i, results) ==
    IF i > Len(commands) THEN results
    ELSE LET result == run_command(commands[i], outcomes[i])
         IN IF ~result.success THEN Append(results, result)
            ELSE run_validation_from(commands, outcomes, i + 1,
                                     Append(results, result))

\* run_validation(commands): outcomes[i] is what command i does if it is run
run_validation(commands, outcomes) ==
    LET results == run_validation_from(commands, outcomes, 1, <<>>)
    IN [all_passed |-> \A i \in 1..Len(results) : results[i].success,
        results |-> results]

\* what one call of the provider path does: a replacement file comes back,
\* an empty text comes back, the ollama package or server is unavailable,
\* the response has no text, the target file is gone, or it cannot be read
ProviderOutcomes ==
    {"fix", "empty", "unavailable", "malformed", "file_missing", "read_error"}

\* get_fix_from_ai: the text or None it returns, or the fault of read_text,
\* which is raised outside the try blocks
Returned(value) == [value |-> value]

get_fix_from_ai(file_path, outcome) ==
    CASE outcome = "unavailable" -> Returned(NoneStr)
      [] outcome = "file_missing" -> Returned(NoneStr)
      [] outcome = "read_error" -> Fault("OSError")
      [] outcome = "malformed" -> Returned(NoneStr)
      [] outcome = "empty" -> Returned(Str(""))
      [] outcome = "fix" -> Returned(Str("fixed " \o file_path))

\* `not fixed_code`
falsy(text) == text = NoneStr \/ text = Str("")

(***************************************************************************)
(* The two other validation loops: run_validation of ralph_tree.py (the    *)
(* validation step of automatic execution) and the validate command of the *)
(* CLI.  Each result is (command, passed).                                 *)
(***************************************************************************)
RECURSIVE legacy_run_validation_from(_, _, _, _)
legacy_run_validation_from(acceptance, outcomes, i, results) ==
    IF i > Len(acceptance) THEN results
    ELSE LET passed == outcomes[i] = "pass"
         IN legacy_run_validation_from(acceptance, outcomes, i + 1,
                Append(results, [command |-> acceptance[i], success |-> passed]))

legacy_run_validation(acceptance, outcomes) ==
    LET results == legacy_run_validation_from(acceptance, outcomes, 1, <<>>)
    IN [all_passed |-> \A i \in 1..Len(results) : results[i].success,
        results |-> results]

\* subprocess.run(cmd, shell=True) without a timeout: the shell's exit code
\* is all there is, a command passes or fails
RECURSIVE cli_validate_from(_, _, _, _)
cli_validate_from(acceptance, outcomes, i, results) ==
    IF i > Len(acceptance) THEN results
    ELSE cli_validate_from(acceptance, outcomes, i + 1,
            Append(results, [command |-> acceptance[i],
                             success |-> outcomes[i] = "pass"]))

cli_validate(acceptance, outcomes) ==
    LET results == cli_validate_from(acceptance, outcomes, 1, <<>>)
    IN [all_passed |-> \A i \in 1..Len(results) : results[i].success,
        results |-> results]

(***************************************************************************)
(* Texts.  Where the code takes a Python str apart (split, lower, slices,  *)
(* character filters) the str is the sequence of its characters; Chars is  *)
(* the text of a node name and NameOf the node name of a text.             *)
(***************************************************************************)
Chars(name) ==
    CASE name = "Root" -> <<"R", "o", "o", "t">>
      [] name = "A" -> <<"A">>
      [] name = "B" -> <<"B">>
      [] name = "A1" -> <<"A", "1">>
      [] name = "A.1" -> <<"A", ".", "1">>
      [] name = "1" -> <<"1">>
      [] name = "Slice" -> <<"S", "l", "i", "c", "e">>

\* names of a stored tree that the editing operations above do not use: a
\* name with a dot in it, and the name that follows the dot
DottedNames == {"A.1", "1"}

\* the name that makes a node a slice
SliceNames == {"Slice"}

\* the name a path segment is compared with; no node is named ""
NameOf(chars) ==
    IF \E n \in Names \cup {RootName} \cup DottedNames \cup SliceNames :
            Chars(n) = chars
    THEN CHOOSE n \in Names \cup {RootName} \cup DottedNames \cup SliceNames :
            Chars(n) = chars
    ELSE ""

\* str(i)
IntChars(i) == <<ToString(i)>>

UpperLetters ==
    <<"A", "B", "C", "D", "E", "F", "G", "H", "I", "J", "K", "L", "M",
      "N", "O", "P", "Q", "R", "S", "T", "U", "V", "W", "X", "Y", "Z">>
LowerLetters ==
    <<"a", "b", "c", "d", "e", "f", "g", "h", "i", "j", "k", "l", "m",
      "n", "o", "p", "q", "r", "s", "t", "u", "v", "w", "x", "y", "z">>
UpperCase == {UpperLetters[i] : i \in 1..Len(UpperLetters)}
LowerCase == {LowerLetters[i] : i \in 1..Len(LowerLetters)}
Digits == {"0", "1", "2", "3", "4", "5", "6", "7", "8", "9"}

lower_char(c) ==
    IF c \in UpperCase
    THEN LowerLetters[CHOOSE i \in 1..Len(UpperLetters) : UpperLetters[i] = c]
    ELSE c

\* s.lower()
lower(s) == [i \in 1..Len(s) |-> lower_char(s[i])]

\* c.isalnum()
isalnum(c) == c \in UpperCase \cup LowerCase \cup Digits

\* s.replace(old, new) for single characters
replace_char(s, old, new) == [i \in 1..Len(s) |-> IF s[i] = old THEN new ELSE s[i]]

\* s[:n]
head_chars(s, n) == SubSeq(s, 1, IF Len(s) < n THEN Len(s) ELSE n)

\* seq[-n:]
last_items(seq, n) == SubSeq(seq, IF Len(seq) < n THEN 1 ELSE Len(seq) - n + 1, Len(seq))

\* s.strip(c)
RECURSIVE lstrip(_, _)
lstrip(s, c) == IF s # <<>> /\ Head(s) = c THEN lstrip(Tail(s), c) ELSE s
RECURSIVE rstrip(_, _)
rstrip(s, c) ==
    IF s # <<>> /\ s[Len(s)] = c THEN rstrip(SubSeq(s, 1, Len(s) - 1), c) ELSE s
strip(s, c) == rstrip(lstrip(s, c), c)

\* every run of the character c made one c
RECURSIVE collapse(_, _)
collapse(s, c) ==
    IF Len(s) < 2 THEN s
    ELSE IF s[1] = c /\ s[2] = c THEN collapse(Tail(s), c)
    ELSE <<s[1]>> \o collapse(Tail(s), c)

\* sep.join(parts)
RECURSIVE join(_, _)
join(sep, parts) ==
    IF parts = <<>> THEN <<>>
    ELSE IF Len(parts) = 1 THEN parts[1]
    ELSE parts[1] \o <<sep>> \o join(sep, Tail(parts))

\* s.split(sep): the segment being read and the segments read so far
RECURSIVE split_from(_, _, _, _)
split_from(s, sep, segment, segments) ==
    IF s = <<>> THEN Append(segments, segment)
    ELSE IF Head(s) = sep
    THEN split_from(Tail(s), sep, <<>>, Append(segments, segment))
    ELSE split_from(Tail(s), sep, Append(segment, Head(s)), segments)

split(s, sep) == split_from(s, sep, <<>>, <<>>)

\* ".".join(path) of a path of node names, and path_text.split(".") as the
\* node names it is compared with
join_path(path) == join(".", [i \in 1..Len(path) |-> Chars(path[i])])
split_path(path_text) ==
    LET segments == split(path_text, ".")
    IN [i \in 1..Len(segments) |-> NameOf(segments[i])]

(***************************************************************************)
(* Workers.  A Worker is a record [id, branch, task, path, status]; the    *)
(* stored pool (workers.json) is the sequence of its workers.              *)
(***************************************************************************)
Worker(id, branch, task, path, status) ==
    [id |-> id, branch |-> branch, task |-> task, path |-> path, status |-> status]

FeatSlash == <<"f", "e", "a", "t", "/">>
WorkerDash == <<"w", "o", "r", "k", "e", "r", "-">>

\* task_to_branch_name of interfaces/cli/commands/worker.py and of
\* ralph_tree.py, which are the same code
cli_task_to_branch_name(task_name) ==
    LET lowered == replace_char(lower(task_name), " ", "-")
        kept == SelectSeq(lowered, LAMBDA c : isalnum(c) \/ c = "-")
        branch == strip(head_chars(collapse(kept, "-"), 40), "-")
    IN FeatSlash \o branch

\* task_to_branch_name of core.py
core_task_to_branch_name(task_name) ==
    LET kept == SelectSeq(task_name, LAMBDA c : isalnum(c) \/ c = " " \/ c = "-")
        hyphened == replace_char(collapse(strip(kept, " "), " "), " ", "-")
    IN FeatSlash \o head_chars(lower(hyphened), 50)

\* create_worker of core.py
core_create_worker(task, path, worker_id) ==
    Worker(worker_id, core_task_to_branch_name(Chars(task.name)), task.name,
           join_path(path), "assigned")

\* task_to_branch_name and create_worker of domain/worker/assignment.py
domain_task_to_branch_name(task_name) ==
    LET lowered == lower(task_name)
        hyphened == [i \in 1..Len(lowered) |->
                        IF lowered[i] \in LowerCase \cup Digits THEN lowered[i] ELSE "-"]
    IN strip(collapse(hyphened, "-"), "-")

domain_create_worker(task, path, worker_id) ==
    Worker(worker_id,
           WorkerDash \o IntChars(worker_id) \o <<"-">>
               \o domain_task_to_branch_name(Chars(task)),
           task, path, "assigned")

\* the branch of worker i in assign_workers of worker_service.py
service_branch(i, path) ==
    LET parts == last_items(path, 2)
        branch_suffix == join("-", [k \in 1..Len(parts) |->
            head_chars(replace_char(lower(Chars(parts[k])), " ", "-"), 20)])
    IN WorkerDash \o IntChars(i) \o <<"-">> \o branch_suffix

\* worker_service.py assign_workers; the path of a worker is a list here
assign_workers(t, n) ==
    IF n <= 0 THEN Err("Worker count must be positive")
    ELSE LET pending_tasks == find_n_pending(t, n)
         IN IF pending_tasks = <<>>
            THEN Err("No pending tasks available for assignment")
            ELSE Ok([workers |-> [i \in 1..Len(pending_tasks) |->
                    Worker(i, service_branch(i, pending_tasks[i].path),
                           pending_tasks[i].task.name, pending_tasks[i].path,
                           "assigned")]])

\* the ids counted from 0
api_assign_workers_ids_from_zero(t, count) ==
    LET tasks == core_find_n_tasks(t, count)
    IN [i \in 1..Len(tasks) |->
            core_create_worker(tasks[i].task, tasks[i].path, i - 1)]

\* api.py: POST /projects/{id}/workers/assign; the workers it saves
api_assign_workers(t, count) ==
    LET tasks == core_find_n_tasks(t, count)
    IN [i \in 1..Len(tasks) |-> core_create_worker(tasks[i].task, tasks[i].path, i)]

\* `ralph worker assign n`: the pool it saves, the stored pool staying as it
\* is when there is no pending task
cli_assign(t, stored, n) ==
    LET tasks == find_n_pending(t, n)
    IN IF tasks = <<>> THEN stored
       ELSE [i \in 1..Len(tasks) |->
                Worker(i, cli_task_to_branch_name(Chars(tasks[i].task.name)),
                       tasks[i].task.name, join_path(tasks[i].path), "assigned")]

\* WorkerPool.next_id
RECURSIVE max_id(_)
max_id(workers) ==
    IF workers = <<>> THEN 0
    ELSE LET rest == max_id(Tail(workers))
         IN IF Head(workers).id > rest THEN Head(workers).id ELSE rest

next_id(workers) == IF workers = <<>> THEN 1 ELSE max_id(workers) + 1

\* seq[:n], n of either sign
slice_to(seq, n) ==
    LET stop == IF n < 0 THEN Len(seq) + n ELSE n
    IN SubSeq(seq, 1, IF stop > Len(seq) THEN Len(seq) ELSE stop)

\* domain/worker/assignment.py assign_tasks onto an existing pool; a task
\* is a (name, path) pair
RECURSIVE add_workers(_, _)
add_workers(workers, tasks) ==
    IF tasks = <<>> THEN workers
    ELSE add_workers(
            Append(workers, domain_create_worker(Head(tasks)[1], Head(tasks)[2],
                                                 next_id(workers))),
            Tail(tasks))

assign_tasks(tasks, max_workers, existing_pool) ==
    add_workers(existing_pool, slice_to(tasks, max_workers))

\* ralph_tree.py cmd_assign_one, worker_id <<>> for None and <<i>> for the
\* id i: the pool it stores
cmd_assign_one(t, stored, worker_id) ==
    LET result == legacy_find_next_task(t)
        id == IF worker_id = <<>> THEN max_id(stored) + 1 ELSE worker_id[1]
    IN IF result = None THEN stored
       ELSE IF \E i \in 1..Len(stored) : stored[i].id = id THEN stored
       ELSE Append(stored,
                Worker(id, cli_task_to_branch_name(Chars(result.task.name)),
                       result.task.name, join_path(result.path), "assigned"))

\* index of the first worker with that id, 0 when there is none
worker_index(workers, worker_id) ==
    IF \E i \in 1..Len(workers) : workers[i].id = worker_id
    THEN CHOOSE i \in 1..Len(workers) :
            /\ workers[i].id = worker_id
            /\ \A j \in 1..(i - 1) : workers[j].id # worker_id
    ELSE 0

without_index(seq, i) == SubSeq(seq, 1, i - 1) \o SubSeq(seq, i + 1, Len(seq))

\* ralph_tree.py cmd_done_one: the tree and the pool stored afterwards, and
\* what is printed about the task
cmd_done_one(t, stored, worker_id) ==
    LET worker_idx == worker_index(stored, worker_id)
    IN IF stored = <<>> \/ worker_idx = 0
       THEN [tree |-> t, workers |-> stored, printed |-> "nothing"]
       ELSE LET marked == mark_done(t, split_path(stored[worker_idx].path))
            IN [tree |-> marked.tree,
                workers |-> without_index(stored, worker_idx),
                printed |-> IF marked.returned THEN "Marked done"
                            ELSE "Could not find task in tree"]

\* ralph_tree.py cmd_done_all
RECURSIVE mark_all_done(_, _)
mark_all_done(t, workers) ==
    IF workers = <<>> THEN t
    ELSE mark_all_done(mark_done(t, split_path(Head(workers).path)).tree,
                       Tail(workers))

cmd_done_all(t, stored) ==
    IF stored = <<>> THEN [tree |-> t, workers |-> stored]
    ELSE [tree |-> mark_all_done(t, stored), workers |-> <<>>]

\* `ralph worker done-one id`
cli_done_one(t, stored, worker_id) ==
    LET worker_idx == worker_index(stored, worker_id)
    IN IF stored = <<>> \/ worker_idx = 0
       THEN [tree |-> t, workers |-> stored, printed |-> "nothing"]
       ELSE [tree |-> update_at_path(t, split_path(stored[worker_idx].path),
                                     SetStatus(DONE)),
             workers |-> SelectSeq(stored, LAMBDA w : w.id # worker_id),
             printed |-> "Marked done"]

\* `ralph worker done-all`
RECURSIVE update_all_done(_, _)
update_all_done(t, workers) ==
    IF workers = <<>> THEN t
    ELSE update_all_done(
            update_at_path(t, split_path(Head(workers).path), SetStatus(DONE)),
            Tail(workers))

cli_done_all(t, stored) ==
    IF stored = <<>> THEN [tree |-> t, workers |-> stored, printed |-> "nothing"]
    ELSE [tree |-> update_all_done(t, stored), workers |-> <<>>,
          printed |-> "Marked done"]

\* worker_service.py complete_worker
complete_worker(pool, worker_id) ==
    LET worker_idx == worker_index(pool.workers, worker_id)
    IN IF worker_idx = 0 THEN Err("Worker not found")
       ELSE IF pool.workers[worker_idx].status = "done"
       THEN Err("Worker is already done")
       ELSE Ok([pool |-> [workers |-> [i \in 1..Len(pool.workers) |->
                    IF pool.workers[i].id = worker_id
                    THEN [pool.workers[worker_idx] EXCEPT !.status = "done"]
                    ELSE pool.workers[i]]],
                event |-> [type |-> "WorkerCompleted", worker_id |-> worker_id,
                           task_path |-> pool.workers[worker_idx].path,
                           task_name |-> pool.workers[worker_idx].task,
                           branch |-> pool.workers[worker_idx].branch]])

\* api.py: POST /projects/{id}/workers/{worker_id}/done
api_complete_worker(t, stored, worker_id) ==
    LET worker_idx == worker_index(stored, worker_id)
    IN IF worker_idx = 0
       THEN [tree |-> t, workers |-> stored, code |-> 404]
       ELSE [tree |-> core_mark_task_done(t, split_path(stored[worker_idx].path)),
             workers |-> [stored EXCEPT ![worker_idx].status = "done"],
             code |-> 200]

(***************************************************************************)
(* Automatic execution in ralph_tree.py: cmd_execute and                   *)
(* cmd_execute_parallel.  A task found is a reference into the tree, kept  *)
(* as its position `at`.                                                   *)
(***************************************************************************)
\* task["status"] = status on the node at position at
RECURSIVE assign_status(_, _, _)
assign_status(node, at, status) ==
    IF at = <<>>
    THEN [name |-> node.name, status |-> status, children |-> node.children]
    ELSE [node EXCEPT !.children[at[1]] = assign_status(@, Tail(at), status)]

\* find_n_tasks_in_node, `found` being the list shared by the calls
RECURSIVE find_n_tasks_in_node(_, _, _, _, _)
RECURSIVE find_n_tasks_in_children(_, _, _, _, _, _)
find_n_tasks_in_node(node, n, path, at, found) ==
    IF Len(found) >= n THEN found
    ELSE LET current_path == Append(path, node.name)
         IN IF is_leaf(node)
            THEN IF legacy_get_status(node) = PENDING
                 THEN Append(found, [task |-> node, path |-> current_path,
                                     at |-> at])
                 ELSE found
            ELSE find_n_tasks_in_children(node.children, 1, n, current_path,
                                          at, found)
find_n_tasks_in_children(children, i, n, current_path, at, found) ==
    IF i > Len(children) THEN found
    ELSE LET after == find_n_tasks_in_node(children[i], n, current_path,
                                           Append(at, i), found)
         IN IF Len(after) >= n THEN after
            ELSE find_n_tasks_in_children(children, i + 1, n, current_path,
                                          at, after)

\* find_n_tasks on a tree without slices
legacy_find_n_tasks(t, n) == find_n_tasks_in_node(t, n, <<>>, <<>>, <<>>)

\* what spawn_subagent(wait=True) reports
SubagentStatuses == {"complete", "blocked", "failed", "timeout", "error"}

\* cmd_execute_parallel: task["status"] = "in-progress" for every task found
RECURSIVE start_all(_, _)
start_all(t, tasks) ==
    IF tasks = <<>> THEN t
    ELSE start_all(assign_status(t, Head(tasks).at, IN_PROGRESS), Tail(tasks))

\* cmd_execute_parallel: mark_done for every result that is "complete"
RECURSIVE mark_completed(_, _, _, _)
mark_completed(t, tasks, statuses, i) ==
    IF i > Len(tasks) THEN t
    ELSE mark_completed(
            IF statuses[i] = "complete" THEN mark_done(t, tasks[i].path).tree
            ELSE t,
            tasks, statuses, i + 1)

(***************************************************************************)
(* Slices of ralph_tree.py.  A slice is a node with the field slice set or *)
(* with a name that starts with "slice"; its order is its field order, 999 *)
(* when it has none.  A node is addressed by its position `at`, the child   *)
(* indices from the root.                                                   *)
(***************************************************************************)
SliceWord == <<"s", "l", "i", "c", "e">>

DEFAULT_SLICE_ORDER == 999

is_slice(node) ==
    \/ "slice" \in DOMAIN node /\ node.slice = TRUE
    \/ head_chars(lower(Chars(node.name)), Len(SliceWord)) = SliceWord

get_slice_order(node) ==
    IF "order" \in DOMAIN node THEN node.order ELSE DEFAULT_SLICE_ORDER

\* collect_slices: the positions of the slices, a node before its children
RECURSIVE collect_slices(_, _)
RECURSIVE collect_slices_in(_, _, _)
collect_slices(node, at) ==
    (IF is_slice(node) THEN <<at>> ELSE <<>>)
        \o collect_slices_in(node.children, 1, at)
collect_slices_in(children, i, at) ==
    IF i > Len(children) THEN <<>>
    ELSE collect_slices(children[i], Append(at, i))
            \o collect_slices_in(children, i + 1, at)

\* slices.sort(key=get_slice_order): a stable sort
RECURSIVE insert_by_order(_, _, _)
insert_by_order(t, sorted, at) ==
    IF sorted = <<>> THEN <<at>>
    ELSE IF get_slice_order(node_at(t, at)) < get_slice_order(node_at(t, Head(sorted)))
         THEN <<at>> \o sorted
         ELSE <<Head(sorted)>> \o insert_by_order(t, Tail(sorted), at)

RECURSIVE sort_slices(_, _)
sort_slices(t, slices) ==
    IF slices = <<>> THEN <<>>
    ELSE insert_by_order(t, sort_slices(t, SubSeq(slices, 1, Len(slices) - 1)),
                         slices[Len(slices)])

RECURSIVE first_not_done(_, _)
first_not_done(t, slices) ==
    IF slices = <<>> THEN None
    ELSE IF legacy_get_status(node_at(t, Head(slices))) # DONE
         THEN [at |-> Head(slices)]
         ELSE first_not_done(t, Tail(slices))

\* the slices in the order they are met, without the sort
find_current_slice_unsorted(t) == first_not_done(t, collect_slices(t, <<>>))

\* find_current_slice: the position of the current slice, or None
find_current_slice(t) ==
    first_not_done(t, sort_slices(t, collect_slices(t, <<>>)))

find_next_task(t) ==
    LET current_slice == find_current_slice(t)
    IN IF current_slice # None
       THEN LET slice == node_at(t, current_slice.at)
            IN legacy_find_next_in_children(slice.children, 1,
                    <<t.name, slice.name>>, current_slice.at)
       ELSE legacy_find_next_task(t)

find_n_tasks(t, n) ==
    LET current_slice == find_current_slice(t)
    IN IF current_slice # None
       THEN LET slice == node_at(t, current_slice.at)
            IN find_n_tasks_in_children(slice.children, 1, n,
                    <<t.name, slice.name>>, current_slice.at, <<>>)
       ELSE legacy_find_n_tasks(t, n)

\* get_slice_tasks: the leaves below the children of the slice
RECURSIVE collect_tasks(_)
RECURSIVE get_slice_tasks_from(_, _)
collect_tasks(node) ==
    IF is_leaf(node) THEN <<node>> ELSE get_slice_tasks_from(node.children, 1)
get_slice_tasks_from(children, i) ==
    IF i > Len(children) THEN <<>>
    ELSE collect_tasks(children[i]) \o get_slice_tasks_from(children, i + 1)

get_slice_tasks(slice_node) == get_slice_tasks_from(slice_node.children, 1)

count_slice_progress(slice_node) ==
    LET tasks == get_slice_tasks(slice_node)
    IN [done |-> Len(SelectSeq(tasks, LAMBDA task : legacy_get_status(task) = DONE)),
        total |-> Len(tasks)]

\* current_slice["status"] = "done"
RECURSIVE assign_slice_done(_, _)
assign_slice_done(node, at) ==
    IF at = <<>> THEN [node EXCEPT !.status = DONE]
    ELSE [node EXCEPT !.children[at[1]] = assign_slice_done(@, Tail(at))]

\* cmd_slice_done: the tree it leaves in the file
cmd_slice_done(t) ==
    LET current_slice == find_current_slice(t)
    IN IF current_slice = None THEN t
       ELSE LET progress == count_slice_progress(node_at(t, current_slice.at))
            IN IF progress.done < progress.total THEN t
               ELSE assign_slice_done(t, current_slice.at)

\* cmd_done: the tree it leaves in the file
cmd_done(t) ==
    LET result == find_next_task(t)
    IN IF result = None THEN t ELSE mark_done(t, result.path).tree

\* cmd_assign: the pool it stores, None when it stores nothing
cmd_assign(t, n) ==
    LET tasks == find_n_tasks(t, n)
    IN IF tasks = <<>> THEN None
       ELSE [workers |-> [i \in 1..Len(tasks) |->
                Worker(i, cli_task_to_branch_name(Chars(tasks[i].task.name)),
                       tasks[i].task.name, join_path(tasks[i].path), "assigned")]]

(***************************************************************************)
(* Token estimation.  A task is here a record [name, spec, read_first,     *)
(* files], name and spec being texts; of the context only its length is    *)
(* used.  utilization (a float) is left out of the TokenCount, but not the *)
(* division by target that computes it.                                    *)
(***************************************************************************)
TARGET_TOKENS == 60000
BASE_OVERHEAD == 15000
TOKENS_PER_FILE == 2500
TOKENS_PER_TOOL_CALL == 500

\* int(x * 0.25) and int(x * 0.2): the product cut towards zero
int_times_quarter(x) == IF x >= 0 THEN x \div 4 ELSE -((-x) \div 4)
int_times_fifth(x) == IF x >= 0 THEN x \div 5 ELSE -((-x) \div 5)

\* sub in s
contains(s, sub) ==
    \E i \in 0..(Len(s) - Len(sub)) : SubSeq(s, i + 1, i + Len(sub)) = sub

high_indicators ==
    {<<"r", "e", "f", "a", "c", "t", "o", "r">>,
     <<"r", "e", "w", "r", "i", "t", "e">>,
     <<"m", "i", "g", "r", "a", "t", "e">>,
     <<"i", "n", "t", "e", "g", "r", "a", "t", "i", "o", "n">>,
     <<"a", "r", "c", "h", "i", "t", "e", "c", "t", "u", "r", "e">>,
     <<"s", "e", "c", "u", "r", "i", "t", "y">>,
     <<"p", "e", "r", "f", "o", "r", "m", "a", "n", "c", "e">>,
     <<"o", "p", "t", "i", "m", "i", "z", "a", "t", "i", "o", "n">>}
medium_indicators ==
    {<<"i", "m", "p", "l", "e", "m", "e", "n", "t">>,
     <<"c", "r", "e", "a", "t", "e">>,
     <<"b", "u", "i", "l", "d">>,
     <<"a", "d", "d">>,
     <<"f", "e", "a", "t", "u", "r", "e">>,
     <<"e", "n", "d", "p", "o", "i", "n", "t">>,
     <<"c", "o", "m", "p", "o", "n", "e", "n", "t">>}

\* estimation.py estimate_complexity (core.py estimate_complexity has the
\* same body)
estimate_complexity(task) ==
    LET name_lower == lower(task.name)
    IN IF \E ind \in high_indicators : contains(name_lower, ind) THEN "high"
       ELSE IF \E ind \in medium_indicators : contains(name_lower, ind)
       THEN "medium"
       ELSE IF Len(task.files) > 3 THEN "high"
       ELSE IF Len(task.files) > 1 THEN "medium"
       ELSE "low"

core_estimate_complexity(task) == estimate_complexity(task)

\* types.py Complexity.estimate
Complexity_estimate(task_name, file_count) ==
    LET name_lower == lower(task_name)
    IN IF \E ind \in high_indicators : contains(name_lower, ind) THEN "high"
       ELSE IF file_count > 3 THEN "high"
       ELSE IF \E ind \in medium_indicators : contains(name_lower, ind)
       THEN "medium"
       ELSE IF file_count > 1 THEN "medium"
       ELSE "low"

tool_multiplier_reversed(complexity) ==
    CASE complexity = "low" -> 25 [] complexity = "medium" -> 15
      [] complexity = "high" -> 8

tool_multiplier(complexity) ==
    CASE complexity = "low" -> 8 [] complexity = "medium" -> 15
      [] complexity = "high" -> 25

\* estimation.py estimate_tokens
estimate_tokens(task, context, target) ==
    LET context_tokens == int_times_quarter(Len(context))
        task_text == IF task.spec # <<>>
                     THEN task.name \o <<"\n">> \o task.spec
                     ELSE task.name
        task_tokens == int_times_quarter(Len(task_text))
        file_count == Len(task.read_first) + Len(task.files)
        file_reads == file_count * TOKENS_PER_FILE
        complexity == estimate_complexity(task)
        tool_calls == tool_multiplier(complexity) * TOKENS_PER_TOOL_CALL
        buffer == int_times_fifth(target)
        total == BASE_OVERHEAD + context_tokens + task_tokens + file_reads
                    + tool_calls + buffer
    IN IF target = 0 THEN Fault("ZeroDivisionError")
       ELSE [base_overhead |-> BASE_OVERHEAD, context_tokens |-> context_tokens,
             task_tokens |-> task_tokens, file_reads |-> file_reads,
             tool_calls |-> tool_calls, buffer |-> buffer, total |-> total,
             target |-> target, fits |-> total <= target,
             complexity |-> complexity]

(***************************************************************************)
(* Size of a tree, for the bounds.                                         *)
(***************************************************************************)
RECURSIVE NodeCount(_)
RECURSIVE NodeCountSeq(_, _)
NodeCount(node) == 1 + NodeCountSeq(node.children, 1)
NodeCountSeq(children, i) ==
    IF i > Len(children) THEN 0
    ELSE NodeCount(children[i]) + NodeCountSeq(children, i + 1)

RECURSIVE Depth(_)
RECURSIVE DepthSeq(_, _)
Depth(node) == 1 + DepthSeq(node.children, 1)
DepthSeq(children, i) ==
    IF i > Len(children) THEN 0
    ELSE LET d == Depth(children[i])
             rest == DepthSeq(children, i + 1)
         IN IF d > rest THEN d ELSE rest

WithinBounds(t) ==
    /\ NodeCountSeq(t.children, 1) <= MaxNodes
    /\ DepthSeq(t.children, 1) <= MaxDepth

\* no healing run is going on while the tree is edited
HealIdle == [pc |-> "idle"]

\* no worker is assigned and no worker command is running
NoWork == [pool |-> <<>>, procs |-> <<>>]

Init ==
    /\ tree = Tree(RootName)
    /\ heal = HealIdle
    /\ work = NoWork

(***************************************************************************)
(* The paths a caller passes: the path of a node of the tree (as returned  *)
(* by a search), the same path without the root name, and paths that       *)
(* address nothing.                                                        *)
(***************************************************************************)
AnyNodePred == [kind |-> "any"]

NodePaths(t) ==
    LET found == filter_nodes(t, AnyNodePred)
    IN {found[i].path : i \in 1..Len(found)}

CallerPaths(t) ==
    NodePaths(t) \cup {Tail(p) : p \in NodePaths(t)}
                 \cup {<<>>, <<t.name>>, <<t.name, t.name>>}

\* The paths the properties are tried on: the above, every node path with one
\* more segment, and every node path with another name in place of the root's.
ProbePaths(t) ==
    CallerPaths(t)
        \cup {Append(p, n) : p \in NodePaths(t), n \in Names}
        \cup {<<n>> \o Tail(p) : p \in NodePaths(t), n \in Names}

(***************************************************************************)
(* Operations.                                                             *)
(***************************************************************************)
\* POST /projects/{id}/tasks/add with a new TaskNode(name=name)
AddTask(parent_path, name) ==
    LET new_tree == api_add_task(tree, parent_path, TaskNode(name, PENDING)).saved
    IN /\ name \in (IF skip_root(tree, parent_path) = <<>>
                    THEN TopNames ELSE NestedNames)
       /\ WithinBounds(new_tree)
       /\ tree' = new_tree
       /\ UNCHANGED <<heal, work>>

\* POST /projects/{id}/tasks/{task_path}/status
UpdateTaskStatus(path, status) ==
    /\ path # <<>>
    /\ tree' = api_update_task_status(tree, path, status).saved
    /\ UNCHANGED <<heal, work>>

\* start_task, the caller keeping the updated tree of an Ok result
StartTask(path) ==
    LET r == start_task(tree, path)
    IN /\ tree' = IF r.ok THEN r.value.tree ELSE tree
       /\ UNCHANGED <<heal, work>>

\* complete_task, the caller keeping the updated tree of an Ok result
CompleteTask(path) ==
    LET r == complete_task(tree, path)
    IN /\ tree' = IF r.ok THEN r.value.tree ELSE tree
       /\ UNCHANGED <<heal, work>>

\* `ralph task done`: the tree the command saves and the task it names,
\* or the loaded tree and None when it prints "No pending tasks."
cli_done(t) ==
    LET task_with_path == find_next_pending(t)
    IN IF task_with_path = None THEN [saved |-> t, marked |-> None]
       ELSE [saved |-> update_at_path(t, task_with_path.path, SetStatus(DONE)),
             marked |-> task_with_path]

Done ==
    /\ tree' = cli_done(tree).saved
    /\ UNCHANGED <<heal, work>>

\* DELETE /projects/{id}/tasks/{task_path}
DeleteTask(path) ==
    /\ path # <<>>
    /\ tree' = api_delete_task(tree, path).saved
    /\ UNCHANGED <<heal, work>>

Next ==
    \/ \E p \in CallerPaths(tree), n \in Names : AddTask(p, n)
    \/ \E p \in CallerPaths(tree), s \in TaskStatus : UpdateTaskStatus(p, s)
    \/ \E p \in CallerPaths(tree) : StartTask(p)
    \/ \E p \in CallerPaths(tree) : CompleteTask(p)
    \/ \E p \in CallerPaths(tree) : DeleteTask(p)
    \/ Done

Spec == Init /\ [][Next]_vars

(***************************************************************************)
(* One run of the healing loop, POST /projects/{id}/heal: heal_task and    *)
(* the heal_file it calls, a step per call of a collaborator.  The same    *)
(* task can instead be validated by the validate command of the CLI, or by *)
(* the validation step of automatic execution.                             *)
(*                                                                         *)
(* heal.calls is the sequence of the collaborator calls made so far.       *)
(***************************************************************************)
Commands(k) == [i \in 1..k |-> "cmd" \o ToString(i)]
Files(k) == [i \in 1..k |-> "f" \o ToString(i) \o ".py"]

\* the task dicts and max_attempts values a request can carry
AcceptanceLists == {Commands(k) : k \in 0..MaxCommands}
FileLists == {Files(k) : k \in 0..MaxFiles}
MaxAttemptsValues == (-1)..MaxMaxAttempts

HealRequest(acceptance, files, max_attempts) ==
    [pc |-> "start", op |-> "none",
     task |-> [acceptance |-> acceptance, files |-> files],
     max_attempts |-> max_attempts,
     file_path |-> "", attempt |-> 0,
     result |-> HealingResult(FALSE, 0, NoneStr, <<>>, NoneStr),
     fixed_code |-> NoneStr, calls |-> <<>>]

InitHeal ==
    /\ tree = Tree(RootName)
    /\ work = NoWork
    /\ heal \in {HealRequest(a, f, m) :
                    a \in AcceptanceLists, f \in FileLists, m \in MaxAttemptsValues}

Return(result) ==
    heal' = [heal EXCEPT !.pc = "done", !.op = "heal", !.result = result]

\* heal_file returns result with .error set
ReturnError(h, text) ==
    heal' = [h EXCEPT !.pc = "done", !.result.error = Str(text)]

\* `for attempt in range(1, max_attempts + 1)`: the value is in the range,
\* and the value after it
in_range(attempt, max_attempts) == 1 <= attempt /\ attempt <= max_attempts

\* a loop variable that is not advanced
next_attempt_stuck(attempt) == attempt

next_attempt(attempt) == attempt + 1

\* the test made one attempt early
attempts_exhausted_early(attempt, max_attempts) == attempt + 1 = max_attempts

\* `if attempt == max_attempts`
attempts_exhausted(attempt, max_attempts) == attempt = max_attempts

max_attempts_error(max_attempts) ==
    "Max attempts (" \o ToString(max_attempts) \o ") reached"

\* heal_task up to the loop of heal_file: the checks of the task, the choice
\* of the target file (files is the list of the task's model_dump), the
\* checks of heal_file
HealTask ==
    /\ heal.pc = "start"
    /\ UNCHANGED <<tree, work>>
    /\ LET acceptance == heal.task.acceptance
           files == heal.task.files
       IN IF acceptance = <<>>
          THEN Return(HealingResult(FALSE, 0, NoneStr, <<>>,
                                    Str("No acceptance criteria for this task")))
          ELSE IF files = <<>>
          THEN Return(HealingResult(FALSE, 0, NoneStr, <<>>,
                                    Str("No files specified for this task")))
          ELSE LET target_file == files[1]
                   h == [heal EXCEPT !.op = "heal", !.file_path = target_file,
                            !.result = HealingResult(FALSE, 0, Str(target_file),
                                                     <<>>, NoneStr)]
               IN \E exists \in BOOLEAN :
                     IF acceptance = <<>>
                     THEN ReturnError(h, "No acceptance commands provided")
                     ELSE IF ~exists
                     THEN ReturnError(h, "File not found: " \o target_file)
                     ELSE IF in_range(1, heal.max_attempts)
                     THEN heal' = [h EXCEPT !.pc = "validate", !.attempt = 1]
                     ELSE heal' = [h EXCEPT !.pc = "done"]

\* the head of one iteration: run_validation and the two returns after it
Validate ==
    /\ heal.pc = "validate"
    /\ UNCHANGED <<tree, work>>
    /\ \E outcomes \in [1..Len(heal.task.acceptance) -> CommandOutcomes] :
          LET v == run_validation(heal.task.acceptance, outcomes)
              h == [heal EXCEPT
                      !.result.attempts = heal.attempt,
                      !.result.validations = v.results,
                      !.calls = Append(@, [op |-> "validate", by |-> "heal_file",
                                           results |-> v.results])]
          IN IF v.all_passed
             THEN heal' = [h EXCEPT !.pc = "done", !.result.success = TRUE]
             ELSE IF attempts_exhausted(heal.attempt, heal.max_attempts)
             THEN ReturnError(h, max_attempts_error(heal.max_attempts))
             ELSE heal' = [h EXCEPT !.pc = "fix"]

\* get_fix_from_ai and the return after it
RequestFix ==
    /\ heal.pc = "fix"
    /\ UNCHANGED <<tree, work>>
    /\ \E outcome \in ProviderOutcomes :
          LET fixed_code == get_fix_from_ai(heal.file_path, outcome)
              h == [heal EXCEPT !.calls = Append(@, [op |-> "provider",
                                                     outcome |-> outcome])]
          IN IF fixed_code = Fault("OSError")
             THEN heal' = [h EXCEPT !.pc = "fault"]
             ELSE IF falsy(fixed_code.value)
             THEN ReturnError(h, "Failed to get fix from AI")
             ELSE heal' = [h EXCEPT !.pc = "write", !.fixed_code = fixed_code.value]

\* path.write_text opens the file for writing, which empties it, and then
\* writes the text: it succeeds, or raises before the file is opened, or
\* raises after (the text cannot be encoded, the disk is full)
WriteOutcomes == {"written", "unchanged", "truncated"}

\* path.write_text and the return after it; the loop goes on to its next
\* attempt
WriteFix ==
    /\ heal.pc = "write"
    /\ UNCHANGED <<tree, work>>
    /\ \E outcome \in WriteOutcomes :
          LET h == [heal EXCEPT !.calls = Append(@, [op |-> "write",
                                  file |-> heal.file_path, outcome |-> outcome])]
          IN IF outcome # "written"
             THEN ReturnError(h, "Failed to write fix: " \o "OSError")
             ELSE IF in_range(next_attempt(heal.attempt), heal.max_attempts)
             THEN heal' = [h EXCEPT !.pc = "validate",
                                    !.attempt = next_attempt(heal.attempt)]
             ELSE heal' = [h EXCEPT !.pc = "done"]

\* The exit status of the validate command.  Both branches of the command,
\* "ALL CHECKS PASSED" and "SOME CHECKS FAILED", print and fall off the end
\* of the function: no typer.Exit and no sys.exit is raised in either, so
\* the process ends with status 0 in both.
validate_exit_code(all_passed) ==
    IF all_passed THEN 0 ELSE 0

\* `ralph task validate`: the commands of the task, all of them
CliValidate ==
    /\ heal.pc = "start"
    /\ heal.task.acceptance # <<>>
    /\ UNCHANGED <<tree, work>>
    /\ \E outcomes \in [1..Len(heal.task.acceptance) -> {"pass", "fail"}] :
          LET v == cli_validate(heal.task.acceptance, outcomes)
          IN heal' = [heal EXCEPT !.pc = "done", !.op = "validate",
                        !.calls = Append(@, [op |-> "validate", by |-> "cli",
                                             results |-> v.results,
                                             exit_code |->
                                                 validate_exit_code(v.all_passed)])]

\* the validation step of automatic execution
AutoValidate ==
    /\ heal.pc = "start"
    /\ heal.task.acceptance # <<>>
    /\ UNCHANGED <<tree, work>>
    /\ \E outcomes \in [1..Len(heal.task.acceptance) -> CommandOutcomes] :
          LET v == legacy_run_validation(heal.task.acceptance, outcomes)
          IN heal' = [heal EXCEPT !.pc = "done", !.op = "auto",
                        !.calls = Append(@, [op |-> "validate", by |-> "auto",
                                             results |-> v.results])]

NextHeal ==
    \/ HealTask
    \/ Validate
    \/ RequestFix
    \/ WriteFix
    \/ CliValidate
    \/ AutoValidate

SpecHeal == InitHeal /\ [][NextHeal]_vars

\* a call that was made returns: every step of a run is eventually taken
SpecHealFair == SpecHeal /\ WF_vars(NextHeal)

Terminated == heal.pc \in {"done", "fault"}

(***************************************************************************)
(* The worker pool: the tree and the stored pool under the worker commands, *)
(* each command run from its start to its end, while tasks are added to    *)
(* and deleted from the tree.  SpecWorkers is the ralph package (the CLI   *)
(* and the API), SpecRolling is ralph_tree.py with its rolling pool.       *)
(***************************************************************************)
InitWorkers ==
    /\ tree = Tree(RootName)
    /\ heal = HealIdle
    /\ work = NoWork

WorkerIds == 1..MaxWorkerId

\* the pool stays within the bounds
PoolWithinBounds(workers) ==
    /\ Len(workers) <= MaxWorkers
    /\ \A i \in 1..Len(workers) : workers[i].id \in WorkerIds

StorePool(workers) ==
    /\ PoolWithinBounds(workers)
    /\ work' = [work EXCEPT !.pool = workers]

\* `ralph worker assign n`
CliAssign(n) ==
    /\ StorePool(cli_assign(tree, work.pool, n))
    /\ UNCHANGED <<tree, heal>>

\* POST /projects/{id}/workers/assign
ApiAssignWorkers(count) ==
    /\ StorePool(api_assign_workers(tree, count))
    /\ UNCHANGED <<tree, heal>>

\* `ralph_tree.py assign-one [id]`
AssignOne(worker_id) ==
    /\ StorePool(cmd_assign_one(tree, work.pool, worker_id))
    /\ UNCHANGED <<tree, heal>>

\* `ralph_tree.py done-one id`
DoneOne(worker_id) ==
    LET done == cmd_done_one(tree, work.pool, worker_id)
    IN /\ tree' = done.tree
       /\ work' = [work EXCEPT !.pool = done.workers]
       /\ UNCHANGED heal

\* `ralph worker done-one id`
CliDoneOne(worker_id) ==
    LET done == cli_done_one(tree, work.pool, worker_id)
    IN /\ tree' = done.tree
       /\ work' = [work EXCEPT !.pool = done.workers]
       /\ UNCHANGED heal

\* `ralph_tree.py done-all`
DoneAll ==
    LET done == cmd_done_all(tree, work.pool)
    IN /\ tree' = done.tree
       /\ work' = [work EXCEPT !.pool = done.workers]
       /\ UNCHANGED heal

\* `ralph worker done-all`
CliDoneAll ==
    LET done == cli_done_all(tree, work.pool)
    IN /\ tree' = done.tree
       /\ work' = [work EXCEPT !.pool = done.workers]
       /\ UNCHANGED heal

\* POST /projects/{id}/workers/{worker_id}/done
ApiCompleteWorker(worker_id) ==
    LET done == api_complete_worker(tree, work.pool, worker_id)
    IN /\ tree' = done.tree
       /\ work' = [work EXCEPT !.pool = done.workers]
       /\ UNCHANGED heal

NextWorkers ==
    \/ \E p \in CallerPaths(tree), n \in Names : AddTask(p, n)
    \/ \E p \in CallerPaths(tree) : DeleteTask(p)
    \/ \E n \in 1..MaxWorkers : CliAssign(n)
    \/ \E n \in 1..MaxWorkers : ApiAssignWorkers(n)
    \/ \E id \in WorkerIds : CliDoneOne(id)
    \/ CliDoneAll
    \/ \E id \in WorkerIds : ApiCompleteWorker(id)

SpecWorkers == InitWorkers /\ [][NextWorkers]_vars

NextRolling ==
    \/ \E p \in CallerPaths(tree), n \in Names : AddTask(p, n)
    \/ \E p \in CallerPaths(tree) : DeleteTask(p)
    \/ \E id \in {<<>>} \cup {<<i>> : i \in WorkerIds} : AssignOne(id)
    \/ \E id \in WorkerIds : DoneOne(id)
    \/ DoneAll

SpecRolling == InitWorkers /\ [][NextRolling]_vars

(***************************************************************************)
(* `ralph worker done-one` run by several processes at a time.  Each       *)
(* process reads and writes the tree file and the workers file in the      *)
(* order of done_one, a read or a write of a file being one step; nothing  *)
(* locks the files.  The tree and the pool are built before the commands   *)
(* start.                                                                  *)
(***************************************************************************)
Procs == work.procs

DoneOneProc(worker_id) ==
    [id |-> worker_id, pc |-> "load_tree", tree |-> None, pool |-> <<>>,
     worker |-> None]

\* a done-one command starts
Launch(worker_id) ==
    /\ Len(Procs) < MaxProcs
    /\ work' = [work EXCEPT !.procs = Append(@, DoneOneProc(worker_id))]
    /\ UNCHANGED <<tree, heal>>

\* tree_repo.load(project_id)
LoadTree(i) ==
    /\ Procs[i].pc = "load_tree"
    /\ work' = [work EXCEPT !.procs[i].tree = tree,
                            !.procs[i].pc = "load_pool"]
    /\ UNCHANGED <<tree, heal>>

\* worker_repo.load(project_id), and the search of the worker in it
LoadPool(i) ==
    /\ Procs[i].pc = "load_pool"
    /\ LET worker_idx == worker_index(work.pool, Procs[i].id)
       IN work' = [work EXCEPT
                !.procs[i].pool = work.pool,
                !.procs[i].worker =
                    IF worker_idx = 0 THEN None ELSE work.pool[worker_idx],
                !.procs[i].pc = IF worker_idx = 0 THEN "done" ELSE "save_tree"]
    /\ UNCHANGED <<tree, heal>>

\* update_at_path on the tree read, and tree_repo.save
SaveTree(i) ==
    /\ Procs[i].pc = "save_tree"
    /\ tree' = update_at_path(Procs[i].tree, split_path(Procs[i].worker.path),
                              SetStatus(DONE))
    /\ work' = [work EXCEPT !.procs[i].pc = "save_pool"]
    /\ UNCHANGED heal

\* the pool read without the worker, and worker_repo.save
SavePool(i) ==
    /\ Procs[i].pc = "save_pool"
    /\ work' = [work EXCEPT
            !.pool = SelectSeq(Procs[i].pool, LAMBDA w : w.id # Procs[i].id),
            !.procs[i].pc = "done"]
    /\ UNCHANGED <<tree, heal>>

NextRace ==
    \/ /\ Procs = <<>>
       /\ \E p \in CallerPaths(tree), n \in Names : AddTask(p, n)
    \/ /\ Procs = <<>>
       /\ \E n \in 1..MaxWorkers : CliAssign(n)
    \/ \E id \in WorkerIds : Launch(id)
    \/ \E i \in 1..Len(Procs) : LoadTree(i)
    \/ \E i \in 1..Len(Procs) : LoadPool(i)
    \/ \E i \in 1..Len(Procs) : SaveTree(i)
    \/ \E i \in 1..Len(Procs) : SavePool(i)

SpecRace == InitWorkers /\ [][NextRace]_vars

(***************************************************************************)
(* Automatic execution: `ralph_tree.py execute` and `execute-parallel` on  *)
(* the tree, one command at a time.  heal holds the command that runs: its *)
(* task, whether each validation run made so far passed, and the paths it *)
(* marked done.  The acceptance list is that of the tasks the command      *)
(* finds.                                                                  *)
(***************************************************************************)
Execution(op, acceptance, auto_done, max_retries) ==
    [pc |-> "done", op |-> op, acceptance |-> acceptance,
     auto_done |-> auto_done, max_retries |-> max_retries,
     path |-> <<>>, at |-> <<>>, fix_attempt |-> 0,
     validation_passed |-> TRUE, runs |-> <<>>, marked |-> <<>>]

\* cmd_execute up to the first spawn_subagent
Execute(acceptance, auto_done, max_retries) ==
    /\ heal = HealIdle
    /\ LET result == legacy_find_next_task(tree)
           run == Execution("execute", acceptance, auto_done, max_retries)
       IN IF result = None
          THEN /\ heal' = run
               /\ UNCHANGED tree
          ELSE /\ tree' = assign_status(tree, result.at, IN_PROGRESS)
               /\ heal' = [run EXCEPT !.pc = "subagent",
                                      !.path = result.path, !.at = result.at]
    /\ UNCHANGED work

\* the end of cmd_execute once the validation loop is left
Conclude(run) ==
    IF ~run.validation_passed
    THEN /\ tree' = assign_status(tree, run.at, PENDING)
         /\ heal' = [run EXCEPT !.pc = "done"]
    ELSE IF run.auto_done
    THEN /\ tree' = mark_done(tree, run.path).tree
         /\ heal' = [run EXCEPT !.pc = "done",
                                !.marked = Append(@, run.path)]
    ELSE /\ heal' = [run EXCEPT !.pc = "done"]
         /\ UNCHANGED tree

\* the test of `while not validation_passed and fix_attempt < max_retries`
\* and what follows it
LoopTest(run) ==
    IF ~run.validation_passed /\ run.fix_attempt < run.max_retries
    THEN /\ heal' = [run EXCEPT !.fix_attempt = @ + 1, !.pc = "fix"]
         /\ UNCHANGED tree
    ELSE Conclude(run)

\* the first subagent returns
SubagentReturns(status) ==
    /\ heal.pc = "subagent"
    /\ heal.op = "execute"
    /\ IF status = "complete"
       THEN IF heal.acceptance # <<>>
            THEN /\ heal' = [heal EXCEPT !.pc = "validate"]
                 /\ UNCHANGED tree
            ELSE Conclude(heal)
       ELSE /\ tree' = assign_status(tree, heal.at,
                            IF status = "blocked" THEN BLOCKED ELSE PENDING)
            /\ heal' = [heal EXCEPT !.pc = "done"]
    /\ UNCHANGED work

\* run_validation(acceptance), first or after a fix
ValidationRun(outcomes) ==
    /\ heal.pc = "validate"
    /\ LET validation == legacy_run_validation(heal.acceptance, outcomes)
       IN LoopTest([heal EXCEPT !.validation_passed = validation.all_passed,
                                !.runs = Append(@, validation.all_passed)])
    /\ UNCHANGED work

\* a fix subagent returns
FixReturns(status) ==
    /\ heal.pc = "fix"
    /\ IF status = "blocked" THEN Conclude(heal)
       ELSE IF status # "complete" THEN LoopTest(heal)
       ELSE /\ heal' = [heal EXCEPT !.pc = "validate"]
            /\ UNCHANGED tree
    /\ UNCHANGED work

\* cmd_execute_parallel, the subagents reporting `statuses`
ExecuteParallel(n, acceptance, statuses) ==
    /\ heal = HealIdle
    /\ LET tasks == legacy_find_n_tasks(tree, n)
           run == Execution("execute_parallel", acceptance, FALSE, 0)
       IN IF tasks = <<>>
          THEN /\ heal' = run
               /\ UNCHANGED tree
          ELSE /\ tree' = mark_completed(start_all(tree, tasks), tasks,
                                         statuses, 1)
               /\ heal' = [run EXCEPT !.marked =
                        [k \in 1..Len(SelectSeq([i \in 1..Len(tasks) |-> i],
                                    LAMBDA i : statuses[i] = "complete")) |->
                            tasks[SelectSeq([i \in 1..Len(tasks) |-> i],
                                    LAMBDA i : statuses[i] = "complete")[k]].path]]
    /\ UNCHANGED work

OutcomeLists(k) == [1..k -> {"pass", "fail"}]

NextExecute ==
    \/ /\ heal = HealIdle
       /\ \E p \in CallerPaths(tree), n \in Names : AddTask(p, n)
    \/ \E acceptance \in AcceptanceLists, auto_done \in BOOLEAN,
          max_retries \in 0..MaxMaxAttempts :
            Execute(acceptance, auto_done, max_retries)
    \/ \E status \in SubagentStatuses : SubagentReturns(status)
    \/ /\ heal.pc = "validate"
       /\ \E outcomes \in OutcomeLists(Len(heal.acceptance)) :
            ValidationRun(outcomes)
    \/ \E status \in SubagentStatuses : FixReturns(status)
    \/ \E n \in 1..MaxWorkers, acceptance \in AcceptanceLists,
          statuses \in [1..MaxWorkers -> SubagentStatuses] :
            ExecuteParallel(n, acceptance, statuses)

SpecExecute == InitWorkers /\ [][NextExecute]_vars

(***************************************************************************)
(* The task service on a stored tree.  TreeRepository.load builds the Tree *)
(* from whatever tree.json holds: any names, any statuses, groups with a    *)
(* status of their own.  Here: up to MaxNodes leaves below the root, or one *)
(* group of one leaf with at most one leaf beside it.                       *)
(***************************************************************************)
StoredLeaves(names) == {TaskNode(n, s) : n \in names, s \in TaskStatus}

StoredGroups ==
    {[name |-> n, status |-> s, children |-> <<c>>] :
        n \in TopNames, s \in TaskStatus, c \in StoredLeaves(NestedNames)}

StoredTrees ==
    {[name |-> RootName, children |-> c] :
        c \in UNION {[1..k -> StoredLeaves(TopNames)] : k \in 0..MaxNodes}
            \cup {<<g>> : g \in StoredGroups}
            \cup {<<g, l>> : g \in StoredGroups, l \in StoredLeaves(TopNames)}
            \cup {<<l, g>> : g \in StoredGroups, l \in StoredLeaves(TopNames)}}

InitStored ==
    /\ tree \in StoredTrees
    /\ heal = HealIdle
    /\ work = NoWork

NextStored ==
    \/ \E p \in CallerPaths(tree) : StartTask(p)
    \/ \E p \in CallerPaths(tree) : CompleteTask(p)

SpecStored == InitStored /\ [][NextStored]_vars

(***************************************************************************)
(* The CLI's worker commands on a stored tree whose names may hold a dot.  *)
(***************************************************************************)
DottedNodes ==
    {TaskNode(n, PENDING) : n \in {"A.1", "B"}}
        \cup {[name |-> "A", status |-> PENDING,
               children |-> <<TaskNode(n, PENDING)>>] : n \in {"1", "B"}}

DottedTrees ==
    {[name |-> RootName, children |-> c] :
        c \in UNION {[1..k -> DottedNodes] : k \in 1..MaxWorkers}}

InitDotted ==
    /\ tree \in DottedTrees
    /\ heal = HealIdle
    /\ work = NoWork

NextDotted ==
    \/ \E n \in 1..MaxWorkers : CliAssign(n)
    \/ \E id \in WorkerIds : CliDoneOne(id)
    \/ CliDoneAll

SpecDotted == InitDotted /\ [][NextDotted]_vars

(***************************************************************************)
(* ralph_tree.py on a tree with slices: done, slice-done and assign.  The   *)
(* tree file holds one or two slices below the root, with or without an     *)
(* order, the first made a slice by its name or by its field, and at most   *)
(* one task outside the slices; every task is pending at the start.         *)
(***************************************************************************)
SliceOrders == {1, 2}

SliceChildren ==
    {<<>>, <<TaskNode("A1", PENDING)>>,
     <<TaskNode("A1", PENDING), TaskNode("B", PENDING)>>,
     <<[name |-> "A", status |-> PENDING,
        children |-> <<TaskNode("A1", PENDING)>>]>>}

SlicesNamed(name) ==
    {[name |-> name, status |-> PENDING, children |-> c] : c \in SliceChildren}
        \cup {[name |-> name, status |-> PENDING, children |-> c, order |-> o] :
                c \in SliceChildren, o \in SliceOrders}

Flagged(nodes) ==
    {[f \in DOMAIN node \cup {"slice"} |->
        IF f = "slice" THEN TRUE ELSE node[f]] : node \in nodes}

FirstSlices == SlicesNamed("Slice") \cup Flagged(SlicesNamed("A"))

SecondSlices == Flagged(SlicesNamed("B"))

SlicedTrees ==
    {[name |-> RootName, children |-> c] :
        c \in {<<first>> \o loose :
                 first \in FirstSlices,
                 loose \in {<<>>, <<TaskNode("A1", PENDING)>>}}
            \cup {<<first, second>> \o loose :
                 first \in FirstSlices, second \in SecondSlices,
                 loose \in {<<>>, <<TaskNode("A1", PENDING)>>}}}

InitSlices ==
    /\ tree \in SlicedTrees
    /\ heal = HealIdle
    /\ work = NoWork

\* `ralph_tree.py done`
CmdDone ==
    /\ tree' = cmd_done(tree)
    /\ UNCHANGED <<heal, work>>

\* `ralph_tree.py slice-done`
CmdSliceDone ==
    /\ tree' = cmd_slice_done(tree)
    /\ UNCHANGED <<heal, work>>

\* `ralph_tree.py assign n`
CmdAssign(n) ==
    /\ cmd_assign(tree, n) # None
    /\ work' = [work EXCEPT !.pool = cmd_assign(tree, n).workers]
    /\ UNCHANGED <<tree, heal>>

NextSlices ==
    \/ CmdDone
    \/ CmdSliceDone
    \/ \E n \in 1..MaxWorkers : CmdAssign(n)

SpecSlices == InitSlices /\ [][NextSlices]_vars

(***************************************************************************)
(* Estimation: `ralph estimate` on a task whose file list grows.  heal     *)
(* holds the task, the context and the target, and the estimate made.      *)
(***************************************************************************)
EstimateNames ==
    {<<"F", "i", "x", " ", "t", "y", "p", "o">>,
     <<"A", "d", "d", " ", "l", "o", "g", "i", "n">>,
     <<"A", "D", "D", "R", "E", "S", "S">>,
     <<"I", "m", "p", "l", "e", "m", "e", "n", "t", " ", "A", "P", "I">>,
     <<"R", "e", "f", "a", "c", "t", "o", "r", " ", "D", "B">>,
     <<"B", "u", "i", "l", "d", " ", "s", "e", "c", "u", "r", "i", "t", "y">>}
EstimateSpecs == {<<>>, <<"s", "p", "e", "c">>}
EstimateContexts == {<<>>, <<"c", "t", "x">>, <<"c", "o", "n", "t", "e", "x", "t", "s">>}
EstimateTargets == {-7, 0, 4, 20000, TARGET_TOKENS}

InitEstimate ==
    /\ tree = Tree(RootName)
    /\ work = NoWork
    /\ \E name \in EstimateNames, spec \in EstimateSpecs,
          r \in 0..MaxReadFirst, f \in 0..MaxTaskFiles,
          context \in EstimateContexts, target \in EstimateTargets :
            heal = [pc |-> "start",
                    task |-> [name |-> name, spec |-> spec,
                              read_first |-> Files(r), files |-> Files(f)],
                    context |-> context, target |-> target,
                    estimate |-> None]

\* estimate_tokens(task, context, target)
EstimateTokens ==
    /\ heal.pc = "start"
    /\ heal' = [heal EXCEPT
            !.pc = "estimated",
            !.estimate = estimate_tokens(heal.task, heal.context, heal.target)]
    /\ UNCHANGED <<tree, work>>

\* the task declares one more file and is estimated again
DeclareFile ==
    /\ heal.pc = "estimated"
    /\ Len(heal.task.files) < MaxTaskFiles
    /\ LET task == [heal.task EXCEPT !.files = Files(Len(@) + 1)]
       IN heal' = [heal EXCEPT
                !.task = task,
                !.estimate = estimate_tokens(task, heal.context, heal.target)]
    /\ UNCHANGED <<tree, work>>

NextEstimate == EstimateTokens \/ DeclareFile

SpecEstimate == InitEstimate /\ [][NextEstimate]_vars

(***************************************************************************)
(* Helpers of the properties below.                                        *)
(***************************************************************************)
Min(a, b) == IF a < b THEN a ELSE b

Take(seq, k) == SubSeq(seq, 1, Min(k, Len(seq)))

\* the tree of the scheduling example, the group A having status sA
ExampleTree(sA) ==
    [name |-> RootName,
     children |-> << [name |-> "A", status |-> sA,
                      children |-> << TaskNode("A1", PENDING) >>],
                     TaskNode("B", PENDING) >>]

ExamplePathA1 == <<RootName, "A", "A1">>
ExamplePathB == <<RootName, "B">>

\* Child indices of the first node, in depth-first order, whose path is target;
\* <<>> when there is none.
RECURSIVE FirstIndexPath(_, _, _, _)
FirstIndexPath(children, i, prefix, target) ==
    IF i > Len(children) THEN <<>>
    ELSE LET current == Append(prefix, children[i].name)
         IN IF current = target THEN <<i>>
            ELSE LET below == FirstIndexPath(children[i].children, 1, current, target)
                 IN IF below # <<>> THEN <<i>> \o below
                    ELSE FirstIndexPath(children, i + 1, prefix, target)

\* children with the one node at index path idx replaced by Apply(update, node)
RECURSIVE ReplaceAtIndexPath(_, _, _)
ReplaceAtIndexPath(children, idx, update) ==
    LET node == children[idx[1]]
    IN [children EXCEPT ![idx[1]] =
           IF Len(idx) = 1 THEN Apply(update, node)
           ELSE [node EXCEPT !.children =
                    ReplaceAtIndexPath(node.children, Tail(idx), update)]]

ReplaceOnlyAddressed(t, path, update) ==
    [t EXCEPT !.children =
        ReplaceAtIndexPath(t.children, FirstIndexPath(t.children, 1, <<t.name>>, path),
                           update)]

SeqToSet(seq) == {seq[i] : i \in 1..Len(seq)}

\* every TaskWithPath some search operation returns on t
SearchResults(t) ==
    LET nxt == find_next_pending(t)
    IN SeqToSet(get_all_leaves(t)) \cup SeqToSet(get_all_pending(t))
         \cup UNION {SeqToSet(find_n_pending(t, n)) : n \in 0..MaxN}
         \cup UNION {SeqToSet(filter_nodes(t, HasStatusPred(s))) : s \in TaskStatus}
         \cup UNION {{find_first(t, HasStatusPred(s))} \ {None} : s \in TaskStatus}
         \cup ({nxt} \ {None})

(***************************************************************************)
(* C1: find_next_pending(T) is the first element of find_n_pending(T, 1),  *)
(* task and path, and is None exactly when find_n_pending(T, 1) is empty.  *)
(***************************************************************************)
C1_NextIsFirstOfOne ==
    LET nxt == find_next_pending(tree)
        one == find_n_pending(tree, 1)
    IN IF one = <<>> THEN nxt = None
       ELSE nxt # None /\ nxt = one[1]

\* a pending group precedes the first pending leaf, which is nested
C1_Witness ==
    /\ Len(tree.children) >= 1
    /\ ~is_leaf(tree.children[1])
    /\ tree.children[1].status = PENDING
    /\ find_next_pending(tree) # None
    /\ Len(find_next_pending(tree).path) = 3
    /\ find_n_pending(tree, 1) = <<find_next_pending(tree)>>

(***************************************************************************)
(* C2: for every n >= 0, n = 0 included, find_n_pending(T, n) is the first *)
(* min(n, k) pending leaves of T in depth-first order (k the number of     *)
(* pending leaves), so never more than n tasks.                            *)
(***************************************************************************)
C2_FirstMinNK ==
    \A n \in 0..MaxN :
        /\ find_n_pending(tree, n) = Take(get_all_pending(tree), n)
        /\ Len(find_n_pending(tree, n)) <= n

(***************************************************************************)
(* C3: for every n >= the number of pending leaves, find_n_pending(T, n)   *)
(* is the list of all pending leaves in depth-first document order.        *)
(***************************************************************************)
C3_AllPendingInOrder ==
    \A n \in 0..MaxN :
        n >= Len(get_all_pending(tree))
            => find_n_pending(tree, n) = get_all_pending(tree)

\* two pending leaves, the first nested deeper than the second, asked with n = 2
C3_Witness ==
    LET pending == get_all_pending(tree)
    IN /\ Len(pending) = 2
       /\ Len(pending[1].path) = 3
       /\ Len(pending[2].path) = 2
       /\ find_n_pending(tree, 2) = pending

C5_DoneAgainRejected ==
    \A p \in ProbePaths(tree) :
        LET task == find_by_path(tree, p)
        IN (task # None /\ is_leaf(task) /\ task.status = DONE) =>
              /\ ~complete_task(tree, p).ok
              /\ core_mark_task_done(tree, p) = tree
              /\ api_update_task_status(tree, p, DONE).saved = tree
              /\ api_update_task_status(tree, p, DONE).code # 200

(***************************************************************************)
(* C6: start_task and complete_task with a path that resolves to a         *)
(* non-leaf node or to no node return an error that carries no tree.       *)
(***************************************************************************)
C6_RejectsGroupAndMissing ==
    \A p \in ProbePaths(tree) :
        LET task == find_by_path(tree, p)
        IN (task = None \/ ~is_leaf(task)) =>
              /\ ~start_task(tree, p).ok
              /\ DOMAIN start_task(tree, p) = {"ok", "error"}
              /\ ~complete_task(tree, p).ok
              /\ DOMAIN complete_task(tree, p) = {"ok", "error"}

\* a pending group is addressed, and a path that resolves to nothing
C6_Witness ==
    /\ \E p \in ProbePaths(tree) :
          /\ find_by_path(tree, p) # None
          /\ ~is_leaf(find_by_path(tree, p))
          /\ find_by_path(tree, p).status = PENDING
          /\ start_task(tree, p) = Err(ErrGrouping(find_by_path(tree, p)))
          /\ complete_task(tree, p) = Err(ErrGrouping(find_by_path(tree, p)))
    /\ \E p \in ProbePaths(tree) :
          /\ Len(p) = 2
          /\ find_by_path(tree, p) = None
          /\ complete_task(tree, p) = Err(ErrNotFound(p))

(***************************************************************************)
(* C7: for every path that resolves to a node and every fn,                *)
(* update_at_path replaces exactly the addressed node by fn(node); every   *)
(* other node, siblings included, keeps fields, position and subtree.      *)
(***************************************************************************)
C7_ExactlyAddressedReplaced ==
    \A p \in ProbePaths(tree), fn \in Updates :
        find_by_path(tree, p) # None
            => update_at_path(tree, p, fn) = ReplaceOnlyAddressed(tree, p, fn)

(***************************************************************************)
(* C8: update_at_path(T, P, identity) = T for every path P, resolving or   *)
(* not.                                                                    *)
(***************************************************************************)
C8_IdentityUpdate ==
    \A p \in ProbePaths(tree) : update_at_path(tree, p, Identity) = tree

\* a path resolves to a nested node whose parent is not pending
C8_Witness ==
    \E p \in ProbePaths(tree) :
        /\ Len(p) = 3
        /\ find_by_path(tree, p) # None
        /\ find_by_path(tree, SubSeq(p, 1, 2)).status # PENDING
        /\ update_at_path(tree, p, Identity) = tree

(***************************************************************************)
(* C9: for every TaskWithPath (task, path) a search returns,               *)
(* find_by_path(tree, path) = task.                                        *)
(***************************************************************************)
C9_PathRoundTrip ==
    \A found \in SearchResults(tree) :
        /\ find_by_path(tree, found.path) = found.task
        /\ core_find_task_by_path(tree, found.path) = found.task

(***************************************************************************)
(* C10: a path whose first segment is not the tree's name addresses no     *)
(* node: lookup returns not-found and update_at_path returns its input.    *)
(***************************************************************************)
C10_ForeignRootResolvesNothing ==
    \A p \in ProbePaths(tree) :
        (p # <<>> /\ p[1] # tree.name) =>
            /\ find_by_path(tree, p) = None
            /\ core_find_task_by_path(tree, p) = None
            /\ \A fn \in Updates : update_at_path(tree, p, fn) = tree

\* children without the one node (and its subtree) at index path idx
RECURSIVE RemoveAtIndexPath(_, _)
RemoveAtIndexPath(children, idx) ==
    IF Len(idx) = 1
    THEN SubSeq(children, 1, idx[1] - 1) \o SubSeq(children, idx[1] + 1, Len(children))
    ELSE LET node == children[idx[1]]
         IN [children EXCEPT ![idx[1]] =
                [node EXCEPT !.children = RemoveAtIndexPath(node.children, Tail(idx))]]

RemoveOnlyAddressed(t, path) ==
    [t EXCEPT !.children =
        RemoveAtIndexPath(t.children, FirstIndexPath(t.children, 1, <<t.name>>, path))]

(***************************************************************************)
(* C11: pruning at a path that resolves to a node removes exactly that     *)
(* node and its subtree: the result is the tree without the addressed      *)
(* node, every other node (same-named ones included) kept with its         *)
(* children unchanged.  Here for the prune of core.py, which the DELETE    *)
(* endpoint saves.                                                         *)
(***************************************************************************)
C11_PruneRemovesExactlyAddressed ==
    \A p \in ProbePaths(tree) :
        FirstIndexPath(tree.children, 1, <<tree.name>>, p) # <<>>
            => api_delete_task(tree, p).saved = RemoveOnlyAddressed(tree, p)

\* path addresses a node of t: the root by its name alone, or a node below it
Resolves(t, path) ==
    \/ path = <<t.name>>
    \/ FirstIndexPath(t.children, 1, <<t.name>>, path) # <<>>

NOT_FOUND == 404

(***************************************************************************)
(* C12: a status update or a child insertion addressed to a path that      *)
(* resolves to no node is answered with an explicit not-found result: not  *)
(* with a success, and not with a fault.  Here for the two endpoints,      *)
(* whose answer is the HTTP status code.                                   *)
(***************************************************************************)
C12_UnresolvedPathIsNotFound ==
    \A p \in ProbePaths(tree) :
        (p # <<>> /\ ~Resolves(tree, p)) =>
            /\ \A s \in TaskStatus :
                   api_update_task_status(tree, p, s).code = NOT_FOUND
            /\ \A n \in Names :
                   api_add_task(tree, p, TaskNode(n, PENDING)).code = NOT_FOUND

(***************************************************************************)
(* C13: a tree mutation leaves its input tree value unchanged, and leaves  *)
(* every task a search returned before it unchanged.  The functions of     *)
(* core.py and traversal.py build their result with model_copy and assign  *)
(* to nothing they were given; mark_done of ralph_tree.py is the mutation  *)
(* that is passed the caller's own tree object, so it is the case stated:  *)
(* after mark_done(tree, path) the tree passed in has the value it had     *)
(* before, and so has the task that find_next_task returned from it.       *)
(***************************************************************************)
C13_MutationLeavesInputUnchanged ==
    \A p \in ProbePaths(tree) \ {<<>>} :
        LET found == legacy_find_next_task(tree)
            after == mark_done(tree, p).tree
        IN /\ after = tree
           /\ found # None => node_at(after, found.at) = found.task

(***************************************************************************)
(* Helpers of the properties of the healing loop.                          *)
(***************************************************************************)
\* the calls of one kind made so far
CallsOf(op) == SelectSeq(heal.calls, LAMBDA c : c.op = op)

\* the validation runs of heal_file made so far
HealRuns == SelectSeq(heal.calls, LAMBDA c : c.op = "validate" /\ c.by = "heal_file")

RunPassed(call) == \A i \in 1..Len(call.results) : call.results[i].success

\* the run is one of heal_task that has returned a HealingResult
Healed == heal.pc = "done" /\ heal.op = "heal"

\* every provider request so far was answered with a replacement file, and
\* every replacement was written
ProviderAlwaysFixed ==
    /\ \A i \in 1..Len(CallsOf("provider")) : CallsOf("provider")[i].outcome = "fix"
    /\ \A i \in 1..Len(CallsOf("write")) : CallsOf("write")[i].outcome = "written"

\* the loop ran, and the commands failed on every validation run
AlwaysFailing ==
    /\ HealRuns # <<>>
    /\ \A i \in 1..Len(HealRuns) : ~RunPassed(HealRuns[i])

C15_PassOnKthRun ==
    LET k == Len(HealRuns)
    IN (/\ heal.op = "heal"
        /\ 1 <= k /\ k <= heal.max_attempts
        /\ RunPassed(HealRuns[k])
        /\ \A i \in 1..(k - 1) : ~RunPassed(HealRuns[i])
        /\ Len(CallsOf("provider")) = k - 1 /\ Len(CallsOf("write")) = k - 1
        /\ ProviderAlwaysFixed)
           => /\ heal.pc = "done"
              /\ heal.result.success = TRUE
              /\ heal.result.attempts = k
              /\ heal.result.error = NoneStr

\* fails once, then the written fix makes it pass: attempts = 2
C15_Witness ==
    /\ Healed /\ Len(HealRuns) = 2
    /\ ~RunPassed(HealRuns[1]) /\ RunPassed(HealRuns[2])
    /\ Len(CallsOf("write")) = 1 /\ CallsOf("write")[1].outcome = "written"
    /\ heal.result.success = TRUE /\ heal.result.attempts = 2

\* results are those of the first Len(results) commands, in declared order,
\* and none of them comes after a failed one
FailFast(commands, results) ==
    /\ Len(results) <= Len(commands)
    /\ \A i \in 1..Len(results) : results[i].command = commands[i]
    /\ \A i \in 1..Len(results) : \A j \in 1..(i - 1) : results[j].success

(***************************************************************************)
(* C16: every validation run executes the acceptance commands in declared  *)
(* order and executes no command after the first failing one, whether it   *)
(* is run by the healing loop, by the validate command of the CLI or by    *)
(* the validation step of automatic execution.                             *)
(***************************************************************************)
C16_ValidationIsFailFast ==
    \A i \in 1..Len(CallsOf("validate")) :
        FailFast(heal.task.acceptance, CallsOf("validate")[i].results)

\* the target file was changed by call i
ChangesFile(call) == call.op = "write" /\ call.outcome # "unchanged"

AtLeastZero(n) == IF n < 0 THEN 0 ELSE n

(***************************************************************************)
(* C17: for every max_attempts value m and every behaviour of the commands *)
(* and the provider, the loop makes at most m validation runs and at most  *)
(* m - 1 provider requests and file writes (none for m <= 0), never writes *)
(* the file after its last validation run (when it has ended, every change *)
(* of the file is followed by a validation run), and terminates.           *)
(***************************************************************************)
C17_BoundedRunsNoLateWrite ==
    /\ [](/\ Len(HealRuns) <= AtLeastZero(heal.max_attempts)
          /\ Len(CallsOf("provider")) <= AtLeastZero(heal.max_attempts - 1)
          /\ Len(CallsOf("write")) <= AtLeastZero(heal.max_attempts - 1)
          /\ Terminated =>
                \A i \in 1..Len(heal.calls) :
                    ChangesFile(heal.calls[i]) =>
                        \E j \in (i + 1)..Len(heal.calls) :
                            heal.calls[j].op = "validate")
    /\ <>Terminated

\* the last call made was to a collaborator that failed
LastCallFailed ==
    /\ heal.calls # <<>>
    /\ LET last == heal.calls[Len(heal.calls)]
       IN \/ last.op = "validate" /\ ~RunPassed(last)
          \/ last.op = "provider" /\ last.outcome # "fix"
          \/ last.op = "write" /\ last.outcome # "written"

(***************************************************************************)
(* C18: a failure of a collaborator of the healing loop (a command that    *)
(* cannot be run or times out, the provider unavailable, a malformed or    *)
(* empty response, the target file unreadable or unwritable) ends the loop *)
(* with a HealingResult whose success is false; no fault propagates out of *)
(* heal_file or heal_task.                                                 *)
(***************************************************************************)
C18_CollaboratorFailureIsAResult ==
    /\ heal.pc # "fault"
    /\ (heal.op = "heal" /\ Terminated /\ LastCallFailed)
          => heal.pc = "done" /\ heal.result.success = FALSE

(***************************************************************************)
(* C19: every HealingResult with success = false carries a non-empty error *)
(* reason, whatever acceptance list, file list and max_attempts the caller *)
(* passed.                                                                 *)
(***************************************************************************)
C19_FailureCarriesReason ==
    (Healed /\ heal.result.success = FALSE)
        => heal.result.error # NoneStr /\ heal.result.error # Str("")

(***************************************************************************)
(* C20: healing a task that declares more than one file is flagged to the  *)
(* caller as out of scope: the result is a failure, and no provider        *)
(* replacement is written to the first listed file.                        *)
(***************************************************************************)
C20_MultiFileTaskIsFlagged ==
    (heal.op = "heal" /\ Len(heal.task.files) > 1)
        => /\ CallsOf("write") = <<>>
           /\ heal.pc = "done" => heal.result.success = FALSE

(***************************************************************************)
(* The worker pool.                                                        *)
(***************************************************************************)
Pool == work.pool

\* C21: in every pool reached by assign-one and done-one operations no two
\* workers hold the same task (assign-one selects a pending task no worker
\* of the pool holds).
C21_NoTaskHeldTwice ==
    \A i, j \in 1..Len(Pool) : i # j => Pool[i].path # Pool[j].path

\* C22: removing a worker at its completion does not lower the next id that
\* will be assigned, so an id once given is not given to a later worker.
C22_RemovalKeepsNextId ==
    [][\A id \in WorkerIds :
          DoneOne(id) => next_id(work'.pool) >= next_id(work.pool)]_vars

\* the pools a batch assign of n workers produces from the tree t
BatchPools(t, n) ==
    {cli_assign(t, <<>>, n), api_assign_workers(t, n)}
        \cup (IF assign_workers(t, n).ok
              THEN {[i \in 1..Len(assign_workers(t, n).value.workers) |->
                        [assign_workers(t, n).value.workers[i] EXCEPT
                            !.path = join_path(@)]]}
              ELSE {})

DistinctPaths(workers) ==
    \A i, j \in 1..Len(workers) : i # j => workers[i].path # workers[j].path

\* C23: in every pool a batch assign(tree, n) produces no two workers refer
\* to the same task path.
C23_BatchPathsDistinct ==
    \A n \in 1..MaxN : \A workers \in BatchPools(tree, n) : DistinctPaths(workers)

\* the workers a batch assign creates from the tree t: none when no leaf is
\* pending
Created(t, n) ==
    {api_assign_workers(t, n), cli_assign(t, <<>>, n)}
        \cup {IF assign_workers(t, n).ok
               THEN [i \in 1..Len(assign_workers(t, n).value.workers) |->
                        [assign_workers(t, n).value.workers[i] EXCEPT
                            !.path = join_path(@)]]
               ELSE <<>>}

\* C24: assign(tree, n) with n >= 1 creates m = min(n, number of pending
\* leaves) workers, their ids are 1..m and worker i holds the i-th pending
\* leaf in depth-first order.
C24_BatchHoldsFirstPending ==
    \A n \in 1..MaxN : \A workers \in Created(tree, n) :
        LET pending == get_all_pending(tree)
        IN /\ Len(workers) = Min(n, Len(pending))
           /\ \A i \in 1..Len(workers) :
                /\ workers[i].id = i
                /\ workers[i].task = pending[i].task.name
                /\ workers[i].path = join_path(pending[i].path)

\* the first leaf is not pending and two later ones are: assign(tree, 2)
\* creates workers 1 and 2 for these two
C24_Witness ==
    /\ Len(get_all_pending(tree)) = 2
    /\ get_all_leaves(tree)[1].task.status # PENDING
    /\ \A workers \in Created(tree, 2) :
        /\ Len(workers) = 2
        /\ workers[2].id = 2
        /\ workers[2].task = get_all_pending(tree)[2].task.name

\* the pool after is the pool before with the status of worker_id done
OnlyStatusDone(before, after, worker_id) ==
    /\ Len(after) = Len(before)
    /\ \A i \in 1..Len(before) :
        IF before[i].id = worker_id
        THEN after[i] = [before[i] EXCEPT !.status = "done"]
        ELSE after[i] = before[i]

\* C25: completing a worker of a batch pool changes only the status of that
\* worker, to done: the tree is unchanged, the other workers are unchanged
\* and no worker is added or removed.
C25_CompleteChangesOnlyTheWorker ==
    [][\A id \in WorkerIds :
          ApiCompleteWorker(id) =>
              /\ tree' = tree
              /\ OnlyStatusDone(work.pool, work'.pool, id)]_vars

\* the status of the node the tree t has at the path text, None when the
\* path resolves to no node
StatusAt(t, path_text) ==
    IF find_by_path(t, split_path(path_text)) = None THEN None
    ELSE [status |-> find_by_path(t, split_path(path_text)).status]

HoldsWorker(workers, worker_id) ==
    \E i \in 1..Len(workers) : workers[i].id = worker_id

\* two done-one commands, for two workers on two tasks, have both ended
BothEnded ==
    /\ Len(Procs) = 2
    /\ \A i \in 1..2 : Procs[i].pc = "done" /\ Procs[i].worker # None
    /\ Procs[1].id # Procs[2].id
    /\ Procs[1].worker.path # Procs[2].worker.path

\* C26: when two done-one commands for different workers on different tasks
\* run at the same time, then after both have ended, under every
\* interleaving of their reads and writes, both tasks are done in the tree
\* and both workers are absent from the pool.
C26_ConcurrentDoneOnesBothTakeEffect ==
    BothEnded =>
        \A i \in 1..2 :
            /\ StatusAt(tree, Procs[i].worker.path) = [status |-> DONE]
            /\ ~HoldsWorker(Pool, Procs[i].id)

\* C27: whenever done-one or done-all removes a worker from the stored pool
\* and reports its task as marked done, the node at the stored path of the
\* worker is done in the stored tree, also when that path resolves to no
\* node any more.
C27_ReportedDoneIsDone ==
    [][/\ \A id \in WorkerIds :
            (/\ CliDoneOne(id)
             /\ HoldsWorker(work.pool, id)
             /\ cli_done_one(tree, work.pool, id).printed = "Marked done")
            => StatusAt(tree', work.pool[worker_index(work.pool, id)].path)
                    = [status |-> DONE]
       /\ (/\ CliDoneAll
           /\ cli_done_all(tree, work.pool).printed = "Marked done")
            => \A i \in 1..Len(work.pool) :
                    StatusAt(tree', work.pool[i].path) = [status |-> DONE]]_vars

DistinctBranches(workers) ==
    \A i, j \in 1..Len(workers) : i # j => workers[i].branch # workers[j].branch

\* no two siblings of the tree have the same name
RECURSIVE UniqueSiblings(_)
UniqueSiblings(node) ==
    /\ \A i, j \in 1..Len(node.children) :
            i # j => node.children[i].name # node.children[j].name
    /\ \A i \in 1..Len(node.children) : UniqueSiblings(node.children[i])

\* C28: in every pool assign produces from a tree (here one whose siblings
\* have distinct names) two different workers never have the same branch
\* token, also when two assigned tasks have the same name.
C28_BranchTokensDistinct ==
    UniqueSiblings(tree) =>
        \A n \in 1..MaxN : \A workers \in BatchPools(tree, n) :
            DistinctBranches(workers)

\* the task, the path and the branch of a worker: what is left of it
\* without the pool bookkeeping
Assignment(worker) ==
    [task |-> worker.task, path |-> worker.path, branch |-> worker.branch]

\* the first assignments of the fixed-batch mode on the tree t
FixedBatchFirst(t) ==
    IF assign_workers(t, 1).ok
    THEN {Assignment([assign_workers(t, 1).value.workers[1] EXCEPT
                        !.path = join_path(@)])}
    ELSE {}

\* the first assignments of the rolling mode on the tree t, by
\* cmd_assign_one and by assign_tasks given the first pending task
RollingFirst(t) ==
    {Assignment(cmd_assign_one(t, <<>>, <<>>)[i]) :
        i \in 1..Len(cmd_assign_one(t, <<>>, <<>>))}
    \cup {Assignment(assign_tasks(
                <<<<get_all_pending(t)[i].task.name,
                    join_path(get_all_pending(t)[i].path)>>>>, 1, <<>>)[1]) :
            i \in {1} \cap 1..Len(get_all_pending(t))}

\* C29: on the same tree the fixed-batch and the rolling assignment select
\* the same task and derive the same branch token from it; their results
\* differ in the ids and in the pool membership only.
C29_ModesAgree ==
    \A fixed \in FixedBatchFirst(tree) : \A rolling \in RollingFirst(tree) :
        fixed = rolling

\* an automatic execution is under way or has ended
Executing == heal # HealIdle /\ "marked" \in DOMAIN heal

\* C30: automatic execution marks a task done only after a validation run
\* in which every acceptance command of the task passed: a task with
\* acceptance commands is not marked done without that run.
C30_DoneOnlyAfterPassingValidation ==
    (Executing /\ heal.marked # <<>> /\ heal.acceptance # <<>>)
        => /\ heal.runs # <<>>
           /\ heal.runs[Len(heal.runs)]

(***************************************************************************)
(* Estimation.                                                             *)
(***************************************************************************)
IsEstimate(e) == "total" \in DOMAIN e

\* C31: declaring more files, all else fixed, never decreases the
\* file_reads component of the estimate and never decreases its total.
C31_MoreFilesNeverLess ==
    [][DeclareFile =>
          /\ IsEstimate(heal.estimate) <=> IsEstimate(heal'.estimate)
          /\ IsEstimate(heal.estimate) =>
                /\ heal'.estimate.file_reads >= heal.estimate.file_reads
                /\ heal'.estimate.total >= heal.estimate.total]_vars

\* a fourth file has been declared for a task without a keyword in its
\* name: the complexity is high now, the file reads are those of the files
C31_Witness ==
    /\ heal.pc = "estimated"
    /\ Len(heal.task.files) = 4
    /\ IsEstimate(heal.estimate)
    /\ heal.estimate.complexity = "high"
    /\ heal.estimate.tool_calls = 12500
    /\ heal.estimate.file_reads = (Len(heal.task.read_first) + 4) * TOKENS_PER_FILE
    /\ Complexity_estimate(heal.task.name, 0) = "low"

\* the class by the rules in the order stated: a high keyword, more than 3
\* files, a medium keyword or more than 1 file, low
ClassInOrder(task_name, file_count) ==
    LET name_lower == lower(task_name)
        has_high == \E ind \in high_indicators : contains(name_lower, ind)
        has_medium == \E ind \in medium_indicators : contains(name_lower, ind)
    IN IF has_high THEN "high"
       ELSE IF file_count > 3 THEN "high"
       ELSE IF has_medium \/ file_count > 1 THEN "medium"
       ELSE "low"

\* C32: every classifier applies the rules in that order (a name with only a
\* medium keyword and more than 3 files is high), so all classifiers give
\* the same class for the same name and file count.
C32_ClassifiersFollowOrder ==
    heal.pc = "estimated" =>
        LET class == ClassInOrder(heal.task.name, Len(heal.task.files))
        IN /\ estimate_complexity(heal.task) = class
           /\ core_estimate_complexity(heal.task) = class
           /\ Complexity_estimate(heal.task.name, Len(heal.task.files)) = class

\* C33: the validate command ends with a non-zero exit status whenever at
\* least one acceptance command of the task failed, and with a zero exit
\* status only when every acceptance command passed.
ValidateCommandRuns ==
    SelectSeq(heal.calls, LAMBDA c : c.op = "validate" /\ c.by = "cli")

C33_ValidateExitStatusTellsFailure ==
    \A i \in 1..Len(ValidateCommandRuns) :
        LET run == ValidateCommandRuns[i]
            some_failed == \E k \in 1..Len(run.results) : ~run.results[k].success
        IN (run.exit_code = 0) <=> ~some_failed

\* C34: the done command marks the in-progress leaf done when a leaf is in
\* progress, and otherwise the next pending leaf; it never marks a pending
\* leaf done while a leaf that is in progress stays in progress.
LeavesWith(t, status) ==
    LET leaves == get_all_leaves(t)
    IN {leaves[i].path : i \in 1..Len(leaves)} \cap
       {q \in NodePaths(t) : find_by_path(t, q).status = status}

C34_DoneTakesInProgressFirst ==
    [][Done =>
        LET r == cli_done(tree)
        IN IF LeavesWith(tree, IN_PROGRESS) # {}
           THEN /\ r.marked # None
                /\ r.marked.path \in LeavesWith(tree, IN_PROGRESS)
                /\ find_by_path(tree', r.marked.path).status = DONE
           ELSE /\ r.marked = find_next_pending(tree)
                /\ r.marked # None =>
                      find_by_path(tree', r.marked.path).status = DONE]_vars

\* C35: from a tree with k pending leaves, "get the next task, then complete
\* it" succeeds while k > 0, lowers the number of pending leaves by exactly
\* one and changes no other leaf; with k = 0 get-next reports no task.
FirstPendingIndex(leaves) ==
    CHOOSE i \in 1..Len(leaves) :
        /\ leaves[i].task.status = PENDING
        /\ \A j \in 1..(i - 1) : leaves[j].task.status # PENDING

NextThenComplete(t) ==
    LET next == get_next_task(t)
    IN IF next.ok THEN complete_task(t, next.value.path) ELSE next

C35_NextThenCompleteDrainsOneByOne ==
    LET k == Len(get_all_pending(tree))
        step == NextThenComplete(tree)
    IN IF k = 0 THEN ~get_next_task(tree).ok
       ELSE /\ step.ok
            /\ Len(get_all_pending(step.value.tree)) = k - 1
            /\ LET before == get_all_leaves(tree)
                   after == get_all_leaves(step.value.tree)
                   first == FirstPendingIndex(before)
               IN /\ Len(after) = Len(before)
                  /\ \A i \in 1..Len(before) :
                        IF i = first
                        THEN after[i] = [before[i] EXCEPT !.task.status = DONE]
                        ELSE after[i] = before[i]

\* C36: when execute-parallel has finished, every task whose worker ended as
\* failed, blocked, error or timeout is pending again in the saved tree: no
\* task is left in progress.
ExecuteParallelFinished ==
    /\ heal # HealIdle
    /\ heal.op = "execute_parallel"
    /\ heal.pc = "done"

C36_UnfinishedTasksResetToPending ==
    ExecuteParallelFinished =>
        LET leaves == get_all_leaves(tree)
        IN \A i \in 1..Len(leaves) :
              legacy_get_status(leaves[i].task) # IN_PROGRESS

\* C37: a step of start_task or complete_task moves the status of a leaf
\* only from pending to in-progress, from pending to done or from
\* in-progress to done; a done or blocked leaf and a non-leaf node keep
\* their status.
AllowedMoves ==
    {<<PENDING, IN_PROGRESS>>, <<PENDING, DONE>>, <<IN_PROGRESS, DONE>>}

StatusOf(node) == IF "status" \in DOMAIN node THEN node.status ELSE "none"

ServiceStep ==
    \E p \in CallerPaths(tree) : StartTask(p) \/ CompleteTask(p)

C37_StatusMovesForwardOnLeaves ==
    [][ServiceStep =>
        LET before == filter_nodes(tree, AnyNodePred)
            after == filter_nodes(tree', AnyNodePred)
        IN /\ Len(after) = Len(before)
           /\ \A i \in 1..Len(before) :
                \/ StatusOf(after[i].task) = StatusOf(before[i].task)
                \/ /\ is_leaf(before[i].task)
                   /\ <<StatusOf(before[i].task), StatusOf(after[i].task)>>
                          \in AllowedMoves]_vars

\* C38: for every worker that assign created, splitting the stored
\* dot-joined path gives the path of the task the worker was assigned, so
\* that done-one and done-all update the node that was assigned, whatever
\* the names in the tree.
AssignedLeaf(t, worker) ==
    LET leaves == get_all_leaves(t)
    IN \E i \in 1..Len(leaves) :
          /\ leaves[i].task.name = worker.task
          /\ join_path(leaves[i].path) = worker.path
          /\ split_path(worker.path) = leaves[i].path

C38_StoredPathSplitsToAssignedPath ==
    \A i \in 1..Len(work.pool) : AssignedLeaf(tree, work.pool[i])

\* C39: while some slice is not marked done, next and assign return only
\* pending leaves inside the current slice, the slice of the lowest order
\* that is not marked done; a task of a later slice is returned only after
\* every slice of a lower order has been marked done.
TopSlices(t) ==
    {i \in 1..Len(t.children) : is_slice(t.children[i])}

NotDone(t) ==
    {i \in TopSlices(t) : legacy_get_status(t.children[i]) # DONE}

LowestNotDone(t) ==
    {i \in NotDone(t) :
        \A j \in NotDone(t) :
            get_slice_order(t.children[i]) <= get_slice_order(t.children[j])}

ReturnedInOrder(t, result) ==
    /\ is_leaf(result.task)
    /\ legacy_get_status(result.task) = PENDING
    /\ node_at(t, result.at) = result.task
    /\ result.at[1] \in LowestNotDone(t)
    /\ \A j \in TopSlices(t) :
            get_slice_order(t.children[j]) < get_slice_order(t.children[result.at[1]])
                => legacy_get_status(t.children[j]) = DONE

C39_OnlyTasksOfTheCurrentSlice ==
    NotDone(tree) # {} =>
        /\ find_next_task(tree) # None =>
                ReturnedInOrder(tree, find_next_task(tree))
        /\ \A n \in 1..MaxWorkers :
                \A i \in 1..Len(find_n_tasks(tree, n)) :
                    ReturnedInOrder(tree, find_n_tasks(tree, n)[i])

\* the slice of order 1 has been marked done, and assign has handed out a
\* task of the slice of order 2
C39_Witness ==
    /\ Len(tree.children) >= 2
    /\ \E i, j \in TopSlices(tree) :
          /\ get_slice_order(tree.children[i]) < get_slice_order(tree.children[j])
          /\ tree.children[i].status = DONE
          /\ get_slice_tasks(tree.children[i]) # <<>>
          /\ j \in NotDone(tree)
          /\ find_next_task(tree) # None
          /\ find_next_task(tree).at[1] = j
          /\ work.pool # <<>>
          /\ work.pool[1].path = join_path(find_next_task(tree).path)

\* C40: on every tree and for every n >= 1 the scheduler of core.py
\* (find_next_task, find_n_tasks) returns the same tasks with the same
\* paths in the same order as the scheduler of the domain layer
\* (find_next_pending, find_n_pending).
C40_SchedulersAgree ==
    /\ core_find_next_task(tree) = find_next_pending(tree)
    /\ \A n \in 1..(MaxN + 1) :
            core_find_n_tasks(tree, n) = find_n_pending(tree, n)

\* the first child is a leaf that is done, the second
\* a group that is itself marked done with a pending leaf in it: both
\* schedulers return that leaf, with its path of three names
C40_Witness ==
    /\ Len(tree.children) = 2
    /\ is_leaf(tree.children[1]) /\ tree.children[1].status = DONE
    /\ ~is_leaf(tree.children[2]) /\ tree.children[2].status = DONE
    /\ core_find_next_task(tree) # None
    /\ Len(core_find_next_task(tree).path) = 3
    /\ find_n_pending(tree, MaxN) = <<core_find_next_task(tree)>>

====
